---- MODULE Spec2Model ----
(***************************************************************************)
(* Model of the AgentEngine planning/execution loop (start,                *)
(* continueExecution, initialize, executionLoop, selectNextDecision,       *)
(* applyTaskAdjustment, executeDecision, analyzeToolFailure,               *)
(* evaluateGenerationProgress, performBasicValidation) and of the          *)
(* ToolRegistry dispatch.  The persistence collaborator                    *)
(* (ResearchSessionOperations) is not part of the sources; its operations  *)
(* are modelled from the design document.                                  *)
(***************************************************************************)
EXTENDS Integers, Sequences, FiniteSets, TLC

(***************************************************************************)
(* Bounds of the model.                                                    *)
(***************************************************************************)
\* largest session.execution_info.max_iterations explored
MaxIterations == 2
\* session.execution_info.token_budget of the modelled session
TokenBudget == 1
\* start / continueExecution are invoked while the iterations of the
\* invocation fit under this cap of the session's persisted iteration count
MaxIterationCount == 2

(***************************************************************************)
(* Values.                                                                 *)
(***************************************************************************)
\* JavaScript undefined / a missing tag or property
Undefined == "undefined"

\* String.prototype.trim on the strings of the model
Trim(s) ==
  CASE s = " " -> ""
    [] s = " b" -> "b"
    [] OTHER -> s

\* an optional object or array: absent (undefined) or present with a value
Absent == [defined |-> FALSE]

Some(v) == [defined |-> TRUE, value |-> v]

\* JavaScript truthiness of a string-or-undefined value
Truthy(v) == v # Undefined /\ v # ""

\* Array.prototype.filter(s => s.length > 0)
RECURSIVE FilterNonEmpty(_)
FilterNonEmpty(s) ==
  IF s = <<>> THEN <<>>
  ELSE IF Head(s) # "" THEN <<Head(s)>> \o FilterNonEmpty(Tail(s))
       ELSE FilterNonEmpty(Tail(s))

\* Array.prototype.map with String.prototype.trim
TrimAll(s) == [i \in 1..Len(s) |-> Trim(s[i])]

\* Array.prototype.slice(0, n)
Slice(s, n) == IF Len(s) <= n THEN s ELSE SubSeq(s, 1, n)

(***************************************************************************)
(* Generation output and the Completion Evaluator.                         *)
(***************************************************************************)
requiredCharFields ==
  <<"name", "description", "personality", "scenario", "first_mes",
    "mes_example", "alternate_greetings", "creator_notes", "tags">>

CharFieldSet == {requiredCharFields[i] : i \in 1..Len(requiredCharFields)}

\* a worldbook entry, reduced to its content (a string or undefined)
Entry(c) == [content |-> c]

\* character_data with every required field set to v
CharAll(v) == [f \in CharFieldSet |-> v]

\* n supplement entries with content c
RECURSIVE Entries(_, _)
Entries(n, c) == IF n = 0 THEN <<>> ELSE <<Entry(c)>> \o Entries(n - 1, c)

\* e => e.content && e.content.trim() !== ""
ValidEntry(e) == Truthy(e.content) /\ Trim(e.content) # ""

RECURSIVE validSupplementEntries(_)
validSupplementEntries(s) ==
  IF s = <<>> THEN <<>>
  ELSE IF ValidEntry(Head(s)) THEN <<Head(s)>> \o validSupplementEntries(Tail(s))
       ELSE validSupplementEntries(Tail(s))

\* !charData[field] || charData[field].toString().trim() === ""
FieldEmpty(charData, field) ==
  \/ ~Truthy(charData[field])
  \/ Trim(charData[field]) = ""

\* index of the first required field that is empty or missing, 0 when none
FirstEmptyField(charData) ==
  IF \E i \in 1..Len(requiredCharFields) : FieldEmpty(charData, requiredCharFields[i])
  THEN CHOOSE i \in 1..Len(requiredCharFields) :
         /\ FieldEmpty(charData, requiredCharFields[i])
         /\ \A j \in 1..(i - 1) : ~FieldEmpty(charData, requiredCharFields[j])
  ELSE 0

\* minimum number of valid supplement entries
MinSupplement == 5

\* the validation verdict: isValid, the category the reason names, and for
\* the supplement axis the number of entries still needed
Verdict(ok, category, need) == [isValid |-> ok, reason |-> category, need |-> need]

performBasicValidation(generationOutput) ==
  IF ~generationOutput.character_data.defined
    THEN Verdict(FALSE, "character_data", 0)
  ELSE IF FirstEmptyField(generationOutput.character_data.value) # 0
    THEN Verdict(FALSE,
                 requiredCharFields[FirstEmptyField(generationOutput.character_data.value)], 0)
  ELSE IF ~generationOutput.status_data.defined
    THEN Verdict(FALSE, "status_data", 0)
  ELSE IF ~generationOutput.user_setting_data.defined
    THEN Verdict(FALSE, "user_setting_data", 0)
  ELSE IF ~generationOutput.world_view_data.defined
    THEN Verdict(FALSE, "world_view_data", 0)
  ELSE IF ~generationOutput.supplement_data.defined
    THEN Verdict(FALSE, "supplement_data", 0)
  ELSE IF Len(validSupplementEntries(generationOutput.supplement_data.value)) < MinSupplement
    THEN Verdict(FALSE, "supplement_data",
                 MinSupplement
                   - Len(validSupplementEntries(generationOutput.supplement_data.value)))
  ELSE Verdict(TRUE, "", 0)

\* an evaluation that returns null whatever the validation says
SatisfiedUnvalidated(generationOutput) == TRUE

\* evaluateGenerationProgress returns null (satisfied) or a message
Satisfied(generationOutput) == performBasicValidation(generationOutput).isValid

(***************************************************************************)
(* The completion status shown to the planner                              *)
(* (buildCompletionStatusSummary).                                         *)
(***************************************************************************)
\* requiredCharFields of buildCompletionStatusSummary
summaryCharFields ==
  <<"name", "description", "personality", "scenario", "first_mes",
    "mes_example", "creator_notes", "tags">>

summaryCharFieldSet == {summaryCharFields[i] : i \in 1..Len(summaryCharFields)}

\* supplementEntries.every(entry => entry.content && entry.content.trim() !== "")
RECURSIVE everyEntryValid(_)
everyEntryValid(s) ==
  IF s = <<>> THEN TRUE ELSE ValidEntry(Head(s)) /\ everyEntryValid(Tail(s))

\* the text after "OVERALL STATUS:" (reduced to its headline), or the
\* content of the last message when that is a quality_evaluation or a
\* tool_failure; message_history is given as the type of its last message
buildCompletionStatusSummary(generationOutput, message_history) ==
  LET hasCharacterData == generationOutput.character_data.defined
      hasStatusData == generationOutput.status_data.defined
      hasUserSettingData == generationOutput.user_setting_data.defined
      hasWorldViewData == generationOutput.world_view_data.defined
      supplementEntries == IF generationOutput.supplement_data.defined
                           THEN generationOutput.supplement_data.value ELSE <<>>
      hasSupplementData == Len(supplementEntries) > 0
      hasAnyWorldbookData ==
        hasStatusData \/ hasUserSettingData \/ hasWorldViewData \/ hasSupplementData
      charComplete ==
        \A i \in 1..Len(summaryCharFields) :
          ~FieldEmpty(generationOutput.character_data.value, summaryCharFields[i])
      supplementComplete ==
        Len(supplementEntries) >= MinSupplement /\ everyEntryValid(supplementEntries)
  IN IF message_history # <<>>
        /\ message_history[Len(message_history)] \in {"quality_evaluation", "tool_failure"}
       THEN "lastMsg.content"
     ELSE IF ~hasCharacterData /\ ~hasAnyWorldbookData THEN "Generation not started"
     ELSE IF ~hasCharacterData /\ hasAnyWorldbookData THEN "INVALID STATE"
     ELSE IF ~charComplete THEN "Character incomplete"
     ELSE IF ~hasAnyWorldbookData THEN "Character complete - Ready for worldbook creation"
     ELSE IF ~hasStatusData THEN "MISSING WORLDBOOK COMPONENT: STATUS"
     ELSE IF ~hasUserSettingData THEN "MISSING WORLDBOOK COMPONENT: USER_SETTING"
     ELSE IF ~hasWorldViewData THEN "MISSING WORLDBOOK COMPONENT: WORLD_VIEW"
     ELSE IF ~supplementComplete THEN "MISSING WORLDBOOK COMPONENT: SUPPLEMENT"
     ELSE "Generation complete - Ready for final evaluation"

(***************************************************************************)
(* Task queue.                                                             *)
(***************************************************************************)
Task(d, subs) == [description |-> d, sub_problems |-> subs]

\* completeCurrentSubProblem: remove the active sub-problem of the head
\* task; a task whose sub-problems are exhausted leaves the queue
completeCurrentSubProblem(queue) ==
  IF queue = <<>> THEN queue
  ELSE LET head == Head(queue)
           rest == IF head.sub_problems = <<>> THEN <<>> ELSE Tail(head.sub_problems)
       IN IF rest = <<>> THEN Tail(queue)
          ELSE <<Task(head.description, rest)>> \o Tail(queue)

\* addTasksToQueue: append the tasks to the tail of the queue
addTasksToQueue(queue, new_tasks) == queue \o new_tasks

\* modifyCurrentTaskAndSubproblems: rewrite the head task's description and,
\* when new sub-problems are given, its sub-problems
modifyCurrentTaskAndSubproblems(queue, newTaskDescription, finalSubproblems) ==
  IF queue = <<>> THEN queue
  ELSE <<Task(newTaskDescription,
              IF finalSubproblems = <<>> THEN Head(queue).sub_problems
              ELSE finalSubproblems)>> \o Tail(queue)

(***************************************************************************)
(* Task adjustment: parsing (selectNextDecision) and constraints           *)
(* (applyTaskAdjustment).                                                  *)
(***************************************************************************)
\* cap on the sub-problem descriptions of one adjustment
MaxSubproblems == 3

\* newSubproblemsText ? text.split("|").map(trim).filter(nonempty).slice(0,3)
\*                    : undefined
\* the text is given as its "|"-separated pieces; <<>> is the missing tag
\* and <<"">> or <<" ">> the tag whose trimmed text is empty
parseNewSubproblems(pieces) ==
  IF pieces = <<>> \/ (Len(pieces) = 1 /\ Trim(pieces[1]) = "") THEN Absent
  ELSE Some(Slice(FilterNonEmpty(TrimAll(pieces)), MaxSubproblems))

\* newTaskDescription || undefined
parseTaskDescription(text) == IF Truthy(Trim(text)) THEN Trim(text) ELSE Undefined

\* Constraint 1 left out
constraintCountSkipped(finalSubproblems, currentSubproblemCount) == finalSubproblems

\* Constraint 1 of applyTaskAdjustment
constraintCount(finalSubproblems, currentSubproblemCount) ==
  IF Len(finalSubproblems) > currentSubproblemCount
  THEN Slice(finalSubproblems, currentSubproblemCount)
  ELSE finalSubproblems

\* Constraint 2 of applyTaskAdjustment
constraintMax(finalSubproblems) ==
  IF Len(finalSubproblems) > MaxSubproblems
  THEN Slice(finalSubproblems, MaxSubproblems)
  ELSE finalSubproblems

\* the sub-problem list applyTaskAdjustment hands to the persistence layer
finalSubproblemsOf(newSubproblems, currentSubproblemCount) ==
  constraintMax(constraintCount(
    IF newSubproblems.defined THEN newSubproblems.value ELSE <<>>,
    currentSubproblemCount))

(***************************************************************************)
(* Session status, tools, messages.                                        *)
(***************************************************************************)
SessionStatus == {"IDLE", "THINKING", "EXECUTING", "WAITING_USER", "COMPLETED", "FAILED"}

\* the tools ToolRegistry.initialize registers
ToolType ==
  {"SEARCH", "ASK_USER", "CHARACTER", "STATUS", "USER_SETTING", "WORLD_VIEW",
   "SUPPLEMENT", "REFLECT", "COMPLETE"}

\* the content-producing tools of the execution loop
ContentTools == {"CHARACTER", "STATUS", "USER_SETTING", "WORLD_VIEW", "SUPPLEMENT"}

\* an action name no tool is registered under
UnknownTool == "UNKNOWN"

\* addMessage: append to the message log (the model keeps the latest
\* message of the log, reduced to its type)
addMessage(log, type) == <<type>>

(***************************************************************************)
(* Inputs: sessions the engine is constructed on, planner responses, tool  *)
(* results.                                                                *)
(***************************************************************************)
EmptyOutput ==
  [character_data |-> Absent, status_data |-> Absent, user_setting_data |-> Absent,
   world_view_data |-> Absent, supplement_data |-> Absent]

\* every category populated
CompleteOutput ==
  [character_data |-> Some(CharAll("x")), status_data |-> Some(Entry("x")),
   user_setting_data |-> Some(Entry("x")), world_view_data |-> Some(Entry("x")),
   supplement_data |-> Some(Entries(MinSupplement, "x"))]

\* every category populated but one supplement entry has blank content
NearOutput ==
  [CompleteOutput EXCEPT
     !.supplement_data = Some(Entries(MinSupplement - 1, "x") \o <<Entry(" ")>>)]

\* every category populated, the character with the fields the completion
\* status summary asks for
SummaryCompleteOutput ==
  [CompleteOutput EXCEPT
     !.character_data =
        Some([f \in CharFieldSet |-> IF f \in summaryCharFieldSet THEN "x" ELSE Undefined])]

\* the sessions the engine is constructed on: a fresh one, one in progress,
\* and ones whose queue is exhausted
InitSessions ==
  { [task_queue |-> <<>>, generation_output |-> EmptyOutput],
    [task_queue |-> <<Task("T1", <<"s1", "s2", "s3", "s4">>), Task("T2", <<"s1">>)>>,
     generation_output |-> NearOutput],
    [task_queue |-> <<Task("T1", <<"s1", "s2">>)>>, generation_output |-> CompleteOutput],
    [task_queue |-> <<>>, generation_output |-> CompleteOutput],
    [task_queue |-> <<>>, generation_output |-> SummaryCompleteOutput] }

\* the number of tasks the decomposition prompt asks the planner for
MinTasks == 5

MaxTasks == 8

\* the planner's decomposition response: it throws, or lists tasks
DecompositionResponses ==
  { [throws |-> TRUE, tasks |-> <<>>],
    [throws |-> FALSE, tasks |-> <<>>],
    [throws |-> FALSE, tasks |-> <<Task(Undefined, <<"s1", Undefined>>)>>],
    [throws |-> FALSE, tasks |-> <<Task("T1", <<"s1">>), Task("T2", <<>>)>>] }

\* the planner's decision response: the action tag (Undefined when missing),
\* the task_description tag and the "|"-separated new_subproblems text
PlannerActions == ToolType \cup {UnknownTool, Undefined, "null", "none", ""}

\* the task_description tag and the new_subproblems pieces of a response:
\* both missing, a description with blank sub-problems, sub-problems only
PlannerAdjustments ==
  { <<Undefined, <<>>>>, <<"A", <<" ">>>>, <<Undefined, <<"a", " ", " b", "c", "d">>>> }

\* the double quote character
Quote == "\""

\* a double quote escaped inside a string literal (backslash, quote)
EscapedQuote == "\\\""

\* a <parameters> child the tag pattern matches: its name and its text, as
\* characters, inside a CDATA section or plain (a plain text is one piece)
Parameter(key, cdata, text) == [key |-> key, cdata |-> cdata, text |-> text]

\* the <parameters> block of a response: missing, or one parameter that is
\* a well-formed array, a truncated array, a truncated array ending inside
\* a string, an unterminated string, an unclosed object, a bare word, a
\* truncated array whose string holds an escaped quote, or a plain value;
\* or two parameters, of different names or of the same name
PlannerParameters ==
  { <<>>,
    <<Parameter("query", TRUE, <<"[", Quote, "a", Quote, ",", Quote, "b", Quote, "]">>)>>,
    <<Parameter("query", TRUE, <<"[", Quote, "a", Quote>>)>>,
    <<Parameter("query", TRUE, <<"[", Quote, "a", Quote, ",", Quote, "b">>)>>,
    <<Parameter("query", TRUE, <<Quote, "a">>)>>,
    <<Parameter("query", TRUE, <<"{">>)>>,
    <<Parameter("query", TRUE, <<"a">>)>>,
    <<Parameter("query", TRUE, <<"[", Quote, "a", EscapedQuote, Quote>>)>>,
    <<Parameter("query", FALSE, <<"TRUE">>)>>,
    <<Parameter("query", FALSE, <<"7">>)>>,
    <<Parameter("query", FALSE, <<"">>)>>,
    <<Parameter("query", FALSE, <<"a">>), Parameter("focus", TRUE, <<"{">>)>>,
    <<Parameter("query", FALSE, <<"a">>), Parameter("query", FALSE, <<"b">>)>> }

\* a planner response: the call throws, or returns a content that is a
\* text or not; of a text, the action tag (Undefined when missing), the
\* task_description tag, the new_subproblems pieces and the parameters
Response(throws, isText, action, adj, parameters) ==
  [throws |-> throws, isText |-> isText, action |-> action,
   task_description |-> adj[1], new_subproblems |-> adj[2], parameters |-> parameters]

\* the responses explored: every action without adjustment and parameters,
\* every adjustment and every parameter block with a registered and an
\* unregistered tool, a planner call that throws, a content that is no text
PlannerResponses ==
  { Response(FALSE, TRUE, a, <<Undefined, <<>>>>, <<>>) : a \in PlannerActions }
  \cup
  { Response(FALSE, TRUE, a, adj, <<>>) :
      a \in {"SEARCH", UnknownTool, "null"}, adj \in PlannerAdjustments }
  \cup
  { Response(FALSE, TRUE, "SEARCH", <<Undefined, <<>>>>, ps) : ps \in PlannerParameters }
  \cup
  { Response(TRUE, TRUE, Undefined, <<Undefined, <<>>>>, <<>>),
    Response(FALSE, FALSE, Undefined, <<Undefined, <<>>>>, <<>>) }

\* the payload of a tool result
Payload(data, finished) == [data |-> data, finished |-> finished]

\* the payloads a successful tool may return, given the session
PayloadsOf(tool) ==
  CASE tool = "SEARCH" ->
         {Payload(Absent, FALSE), Payload(Some({}), FALSE), Payload(Some({"k"}), FALSE)}
    [] tool = "ASK_USER" -> {Payload(Absent, FALSE)}
    [] tool = "CHARACTER" ->
         {Payload(Absent, FALSE), Payload(Some(CharAll("x")), FALSE),
          Payload(Some([f \in {"name"} |-> "y"]), FALSE),
          Payload(Some([f \in summaryCharFieldSet |-> "x"]), FALSE)}
    [] tool = "STATUS" ->
         {Payload(Absent, FALSE), Payload(Some(Entry("x")), FALSE),
          Payload(Some(Entry("")), FALSE)}
    [] tool \in {"USER_SETTING", "WORLD_VIEW"} ->
         {Payload(Absent, FALSE), Payload(Some(Entry("x")), FALSE)}
    [] tool = "SUPPLEMENT" ->
         {Payload(Absent, FALSE), Payload(Some(Entries(MinSupplement, "x")), FALSE),
          Payload(Some(Entries(1, "x")), FALSE)}
    [] tool = "REFLECT" ->
         {Payload(Absent, FALSE), Payload(Some(<<>>), FALSE),
          Payload(Some(<<Task("R1", <<"r1", "r2">>), Task("R2", <<"r3">>)>>), FALSE)}
    [] tool = "COMPLETE" -> {Payload(Absent, TRUE), Payload(Absent, FALSE)}
    [] OTHER -> {}

\* ExecutionResult: success flag and optional payload, no error text
ExecutionResult(success, payload) ==
  [success |-> success, result |-> payload, error |-> Undefined]

\* { success: false, error }: a failure that carries an error text
FailureResult(error) == [success |-> FALSE, result |-> Absent, error |-> error]

\* the error text for a name with no tool: `No tool found for type: ${tool}`
NoToolFound(tool) == <<"No tool found for type: ", tool>>

\* the messages of the exceptions a tool's execute throws
ThrownMessages == {"tool threw"}

NoResult == ExecutionResult(FALSE, Absent)

\* the class names of the tools registered at run time
DynamicToolNames == {"PluginTool", "OtherTool"}

\* ToolRegistry.tools.get: the static store, filled by initialize with one
\* tool per tool type
toolsGet(tool) == IF tool \in ToolType THEN Some(tool) ELSE Absent

\* ToolRegistry.getTool: the dynamic store first, then the static store
getTool(dynamic, toolName) ==
  IF toolName \in dynamic THEN Some(toolName)
  ELSE IF toolName \in ToolType THEN Some(toolName)
  ELSE Absent

\* ToolRegistry.registerDynamicTool: keyed by the tool's class name, a tool
\* of that name already registered is replaced
registerDynamicTool(dynamic, toolName) == dynamic \cup {toolName}

\* ToolRegistry.unregisterDynamicTool: removes the name when it is registered
unregisterDynamicTool(dynamic, toolName) ==
  IF toolName \in dynamic THEN dynamic \ {toolName} ELSE dynamic

\* ToolRegistry.executeToolDecision: the tool is looked up in the static
\* store; a name with no tool there fails, a tool found there returns its
\* result (a failure may carry a payload)
executeToolDecision(tool) ==
  IF ~toolsGet(tool).defined THEN {FailureResult(NoToolFound(tool))}
  ELSE {ExecutionResult(FALSE, Absent)}
       \cup {ExecutionResult(TRUE, Some(p)) : p \in PayloadsOf(tool)}
       \cup (IF tool = "STATUS"
             THEN {ExecutionResult(FALSE, Some(Payload(Some(Entry("f")), FALSE)))}
             ELSE {})
       \cup (IF tool \in {"REFLECT", "COMPLETE", "SEARCH"}
             THEN {ExecutionResult(TRUE, Absent)} ELSE {})

(***************************************************************************)
(* Decision parsing (selectNextDecision).                                  *)
(***************************************************************************)
Decision(tool, taskAdjustment, parameters) ==
  [tool |-> tool, taskAdjustment |-> taskAdjustment, parameters |-> parameters]

NoAdjustment == [taskDescription |-> Undefined, newSubproblems |-> Absent]

\* selectNextDecision returned null
NoDecision == Decision("null", NoAdjustment, <<>>)

\* a statement of selectNextDecision threw
Raised == Decision("raised", NoAdjustment, <<>>)

\* content.match(/<action>.../)?.[1].trim() ?? "null"
parseAction(tag) == IF tag = Undefined THEN "null" ELSE Trim(tag)

\* action === "null" || !action
IsNoAction(action) == action = "null" \/ action = ""

\* a parsed value: its kind and its items (the elements of an array, the
\* one text of a string, a number, a boolean or a raw fallback)
JSONValue(kind, items) == [kind |-> kind, items |-> items]

\* index of the first quote of t at or after i, 0 when there is none
RECURSIVE NextQuote(_, _)
NextQuote(t, i) ==
  IF i > Len(t) THEN 0
  ELSE IF t[i] = Quote THEN i ELSE NextQuote(t, i + 1)

\* a string literal of t starting at i: the index after its closing quote,
\* 0 when t has no string literal there
StringEnd(t, i) ==
  IF i <= Len(t) /\ t[i] = Quote /\ NextQuote(t, i + 1) # 0
  THEN NextQuote(t, i + 1) + 1 ELSE 0

\* the elements of an array literal from i on: the index of the closing
\* bracket, 0 when the elements are malformed or the bracket is missing
RECURSIVE ElementsEnd(_, _)
ElementsEnd(t, i) ==
  LET j == StringEnd(t, i) IN
    IF j = 0 \/ j > Len(t) THEN 0
    ELSE IF t[j] = "]" THEN j
    ELSE IF t[j] = "," THEN ElementsEnd(t, j + 1)
    ELSE 0

\* the texts of the elements of a well-formed array literal from i on
RECURSIVE Elements(_, _)
Elements(t, i) ==
  LET j == StringEnd(t, i) IN
    <<SubSeq(t, i + 1, j - 2)>> \o (IF t[j] = "," THEN Elements(t, j + 1) ELSE <<>>)

\* JSON.parse on arrays of strings, strings, the empty object and the
\* number 7: the value, or Absent for a SyntaxError
JSONparse(t) ==
  IF t = <<"[", "]">> THEN Some(JSONValue("array", <<>>))
  ELSE IF t = <<"{", "}">> THEN Some(JSONValue("object", <<>>))
  ELSE IF t = <<"7">> THEN Some(JSONValue("number", <<t>>))
  ELSE IF t # <<>> /\ t[1] = "[" /\ Len(t) > 2 /\ ElementsEnd(t, 2) = Len(t)
    THEN Some(JSONValue("array", Elements(t, 2)))
  ELSE IF StringEnd(t, 1) = Len(t) + 1
    THEN Some(JSONValue("string", <<SubSeq(t, 2, Len(t) - 1)>>))
  ELSE Absent

\* /^\s*X/.test(t) and /X\s*$/.test(t)
StartsWith(t, ch) == t # <<>> /\ t[1] = ch

EndsWith(t, ch) == t # <<>> /\ t[Len(t)] = ch

\* (t.match(/"/g) || []).length
QuoteCount(t) == Cardinality({i \in 1..Len(t) : t[i] \in {Quote, EscapedQuote}})

\* append the closing bracket an opened array or object lacks
CloseBrackets(t) ==
  LET a == IF StartsWith(t, "[") /\ ~EndsWith(t, "]") THEN t \o <<"]">> ELSE t
  IN IF StartsWith(a, "{") /\ ~EndsWith(a, "}") THEN a \o <<"}">> ELSE a

\* the auto-fix of the first attempt: brackets, then an odd quote count
AutoFix(t) ==
  IF QuoteCount(CloseBrackets(t)) % 2 # 0 THEN CloseBrackets(t) \o <<Quote>>
  ELSE CloseBrackets(t)

\* a CDATA value without the last attempt on the text with only its
\* brackets closed
parseCdataNoBracketRetry(cdata) ==
  IF JSONparse(cdata).defined THEN JSONparse(cdata).value
  ELSE LET parsed == IF AutoFix(cdata) # cdata THEN JSONparse(AutoFix(cdata)) ELSE Absent
       IN IF parsed.defined THEN parsed.value ELSE JSONValue("raw", <<cdata>>)

\* a CDATA value: JSON.parse, then the auto-fixed text when a fix applied,
\* then the text with its brackets closed, then the raw text
parseCdata(cdata) ==
  IF JSONparse(cdata).defined THEN JSONparse(cdata).value
  ELSE LET parsed == IF AutoFix(cdata) # cdata THEN JSONparse(AutoFix(cdata)) ELSE Absent
           retried == IF parsed.defined THEN parsed ELSE JSONparse(CloseBrackets(cdata))
       IN IF retried.defined THEN retried.value ELSE JSONValue("raw", <<cdata>>)

\* String.prototype.toLowerCase on the plain values of the model
ToLowerCase(v) == IF v = "TRUE" THEN "true" ELSE IF v = "FALSE" THEN "false" ELSE v

\* a plain value: boolean, number or the text itself
parsePlain(v) ==
  IF ToLowerCase(v) \in {"true", "false"} THEN JSONValue("boolean", <<<<ToLowerCase(v)>>>>)
  ELSE IF v = "7" THEN JSONValue("number", <<<<v>>>>)
  ELSE JSONValue("string", <<<<v>>>>)

\* the value of one parameter tag
parseParameter(p) == IF p.cdata THEN parseCdata(p.text) ELSE parsePlain(p.text[1])

\* index of the last tag of ps named key
LastTag(ps, key) ==
  CHOOSE i \in 1..Len(ps) :
    ps[i].key = key /\ \A j \in (i + 1)..Len(ps) : ps[j].key # key

\* the parameters of a decision: parameters[key] = value for every tag in
\* turn, so that a later tag of a name replaces an earlier one
parseParameters(ps) ==
  [key \in {ps[i].key : i \in 1..Len(ps)} |-> parseParameter(ps[LastTag(ps, key)])]

\* the try block of selectNextDecision: Raised when the planner call or a
\* statement on its content throws, null when there is no action, the
\* decision otherwise
tryParseDecision(response) ==
  IF response.throws \/ ~response.isText THEN Raised
  ELSE IF IsNoAction(parseAction(response.action)) THEN NoDecision
  ELSE Decision(parseAction(response.action),
                [taskDescription |->
                   parseTaskDescription(IF response.task_description = Undefined THEN ""
                                        ELSE response.task_description),
                 newSubproblems |-> parseNewSubproblems(response.new_subproblems)],
                parseParameters(response.parameters))

\* selectNextDecision without its catch
selectNextDecisionUncaught(response) == tryParseDecision(response)

\* selectNextDecision: the catch turns whatever the try block throws into
\* null
selectNextDecision(response) ==
  IF tryParseDecision(response) = Raised THEN NoDecision
  ELSE tryParseDecision(response)

(***************************************************************************)
(* Persistence operations on the generation output.                        *)
(***************************************************************************)
\* updateGenerationOutput({character_data}): merge the returned fields
mergeCharacterData(old, new) ==
  Some([f \in CharFieldSet |->
          IF f \in DOMAIN new THEN new[f]
          ELSE IF old.defined THEN old.value[f] ELSE Undefined])

\* the output field a worldbook tool writes
WorldbookField(tool) ==
  CASE tool = "STATUS" -> "status_data"
    [] tool = "USER_SETTING" -> "user_setting_data"
    [] tool = "WORLD_VIEW" -> "world_view_data"
    [] OTHER -> "supplement_data"

\* the content tools' write to the generation output
applyContent(output, tool, data) ==
  IF ~data.defined THEN output
  ELSE IF tool = "CHARACTER"
    THEN [output EXCEPT !.character_data = mergeCharacterData(@, data.value)]
  ELSE [output EXCEPT ![WorldbookField(tool)] = data]

(***************************************************************************)
(* Task decomposition parsing (initialize).                                *)
(***************************************************************************)
\* the fallback labels `Task ${index + 1}` and `Sub-problem ${subIndex + 1}`
TaskLabel(i) == CASE i = 1 -> "Task 1" [] i = 2 -> "Task 2" [] OTHER -> "Task n"

SubProblemLabel(i) ==
  CASE i = 1 -> "Sub-problem 1" [] i = 2 -> "Sub-problem 2" [] OTHER -> "Sub-problem n"

\* taskMatches.map(...): each field is read on its own, a missing one gets
\* its fallback label
parseTaskQueue(tasks) ==
  [i \in 1..Len(tasks) |->
     Task(IF Truthy(tasks[i].description) THEN tasks[i].description ELSE TaskLabel(i),
          [j \in 1..Len(tasks[i].sub_problems) |->
             IF Truthy(tasks[i].sub_problems[j]) THEN tasks[i].sub_problems[j]
             ELSE SubProblemLabel(j)])]

(***************************************************************************)
(* State.                                                                  *)
(***************************************************************************)
\* engine instances that may run on the session
Engines == {1, 2}

VARIABLES
  \* the persisted session
  status, task_queue, knowledge_base, generation_output,
  messages, iteration_count, max_iterations, total_tokens_used,
  \* the engine instances in use
  engines,
  \* the registry's dynamic store: the names of the tools registered in it
  dynamicTools,
  \* each engine's position and locals
  pc, iteration, usedTokens, decision, result, context, userInputCallback, ret,
  \* the persistence and collaborator calls of the current iteration, in order
  calls,
  \* the iterations of the current invocation that had no decision
  noDecisions

session ==
  <<status, task_queue, knowledge_base, generation_output,
    messages, iteration_count, total_tokens_used>>

locals ==
  <<pc, iteration, usedTokens, decision, result, context, userInputCallback, ret,
    calls, noDecisions>>

\* what no step of an engine changes: the engines in use, the session's
\* iteration cap and the registry's dynamic store
config == <<engines, max_iterations, dynamicTools>>

vars == <<session, config, locals>>

\* the value an invocation returns
Returned(success, what) == [success |-> success, what |-> what]

NoReturn == Returned(FALSE, "running")

SessionInit ==
  /\ status = "IDLE"
  /\ \E s \in InitSessions :
       /\ task_queue = s.task_queue
       /\ generation_output = s.generation_output
  /\ knowledge_base = {}
  /\ messages = <<>>
  /\ iteration_count = 0
  /\ max_iterations \in 1..MaxIterations
  /\ total_tokens_used = 0

LocalInit ==
  /\ pc = [e \in Engines |-> "idle"]
  /\ iteration = [e \in Engines |-> 0]
  /\ usedTokens = [e \in Engines |-> 0]
  /\ decision = [e \in Engines |-> NoDecision]
  /\ result = [e \in Engines |-> NoResult]
  /\ context = [e \in Engines |-> <<>>]
  /\ userInputCallback = [e \in Engines |-> FALSE]
  /\ ret = [e \in Engines |-> NoReturn]
  /\ calls = [e \in Engines |-> <<>>]
  /\ noDecisions = [e \in Engines |-> 0]

Init == SessionInit /\ LocalInit /\ engines = {1} /\ dynamicTools = {}

(***************************************************************************)
(* start / continueExecution.                                              *)
(***************************************************************************)
\* buildExecutionContext: the research state of the session as it is
\* persisted when the call is made (the model keeps its task queue)
buildExecutionContext(queue) == queue

\* the calls to collaborators are logged per iteration
Call(e, names) == calls' = [calls EXCEPT ![e] = @ \o names]

\* the catch of start and continueExecution: mark FAILED, return the error
Throw(e) ==
  /\ status' = "FAILED"
  /\ ret' = [ret EXCEPT ![e] = Returned(FALSE, "exception")]
  /\ pc' = [pc EXCEPT ![e] = "done"]
  /\ decision' = [decision EXCEPT ![e] = NoDecision]
  /\ result' = [result EXCEPT ![e] = NoResult]
  /\ context' = [context EXCEPT ![e] = <<>>]

\* the locals executionLoop sets before its while loop
EnterLoop(e) ==
  /\ iteration' = [iteration EXCEPT ![e] = 0]
  /\ usedTokens' = [usedTokens EXCEPT ![e] = total_tokens_used]
  /\ noDecisions' = [noDecisions EXCEPT ![e] = 0]

CanInvoke(e) ==
  /\ e \in engines
  /\ pc[e] \in {"idle", "done"}
  /\ iteration_count + max_iterations <= MaxIterationCount

\* start: keep the callback when one is given, set THINKING and take the
\* context initialize works on
Start(e) ==
  /\ CanInvoke(e)
  /\ \E cb \in {TRUE, userInputCallback[e]} :
       userInputCallback' = [userInputCallback EXCEPT ![e] = cb]
  /\ status' = "THINKING"
  /\ context' = [context EXCEPT ![e] = buildExecutionContext(task_queue)]
  /\ pc' = [pc EXCEPT ![e] = "initialize"]
  /\ ret' = [ret EXCEPT ![e] = NoReturn]
  /\ calls' = [calls EXCEPT ![e] = <<>>]
  /\ UNCHANGED <<task_queue, knowledge_base, generation_output,
                 messages, iteration_count, total_tokens_used, config,
                 iteration, usedTokens, decision, result, noDecisions>>

\* a check of the context's queue that never finds it seeded
AlreadyInitializedNever(queue) == FALSE

\* context.research_state.task_queue &&
\*   context.research_state.task_queue.length > 0
AlreadyInitialized(queue) == Len(queue) > 0

\* initialize returns to start, which enters the execution loop
InitializeReturns(e) ==
  /\ EnterLoop(e)
  /\ pc' = [pc EXCEPT ![e] = "top"]
  /\ UNCHANGED <<status, ret, decision, result, context>>

\* a catch of initialize that hands the exception on to the catch of start
DecompositionRethrown(e) ==
  /\ Throw(e)
  /\ UNCHANGED <<iteration, usedTokens, noDecisions>>

\* the catch of initialize: the exception of the planner request or of the
\* parsing is logged and initialize returns
DecompositionCaught(e) == InitializeReturns(e)

\* initialize: decompose the objective unless the queue is already seeded
\* (one planner request, the parsed queue persisted, one message), then
\* enter the execution loop
Initialize(e) ==
  /\ pc[e] = "initialize"
  /\ IF AlreadyInitialized(context[e])
     THEN /\ UNCHANGED <<task_queue, messages, calls>>
          /\ InitializeReturns(e)
     ELSE \E response \in DecompositionResponses :
            IF response.throws
            THEN /\ Call(e, <<"invoke">>)
                 /\ UNCHANGED <<task_queue, messages>>
                 /\ DecompositionCaught(e)
            ELSE /\ task_queue' = parseTaskQueue(response.tasks)
                 /\ messages' = addMessage(messages, "agent_thinking")
                 /\ Call(e, <<"invoke", "updateResearchState", "addMessage">>)
                 /\ InitializeReturns(e)
  /\ UNCHANGED <<knowledge_base, generation_output, iteration_count,
                 total_tokens_used, config, userInputCallback>>

\* a continueExecution that completes the active sub-problem on every status
ResumeCompletesAlways(s) == TRUE

\* the session statuses on which continueExecution completes the active
\* sub-problem
ResumeCompletes(s) == s = "THINKING" \/ s = "IDLE"

\* continueExecution: complete the active sub-problem on a continuable
\* status, then enter the execution loop
ContinueExecution(e) ==
  /\ CanInvoke(e)
  /\ context' = [context EXCEPT ![e] = buildExecutionContext(task_queue)]
  /\ IF ResumeCompletes(status)
     THEN /\ task_queue' = completeCurrentSubProblem(task_queue)
          /\ calls' = [calls EXCEPT ![e] = <<"completeCurrentSubProblem">>]
     ELSE /\ UNCHANGED task_queue
          /\ calls' = [calls EXCEPT ![e] = <<>>]
  /\ EnterLoop(e)
  /\ pc' = [pc EXCEPT ![e] = "top"]
  /\ ret' = [ret EXCEPT ![e] = NoReturn]
  /\ UNCHANGED <<status, knowledge_base, generation_output, messages,
                 iteration_count, total_tokens_used, config, decision, result,
                 userInputCallback>>

(***************************************************************************)
(* executionLoop.                                                          *)
(***************************************************************************)
\* the while condition with an inclusive iteration bound
LoopConditionInclusive(it, maxIterations, used, tokenBudget) ==
  it <= maxIterations /\ used < tokenBudget

\* the while condition
LoopCondition(it, maxIterations, used, tokenBudget) ==
  it < maxIterations /\ used < tokenBudget

\* the error of the return after the loop
ExitError(used, tokenBudget) ==
                   IF used >= tokenBudget THEN "Token budget exceeded"
                   ELSE "Maximum iterations reached without completion"

\* a return after the loop that reports success
ExitReturnSuccess(used, tokenBudget) == Returned(TRUE, ExitError(used, tokenBudget))

\* the return after the loop: { success: false, error }
ExitReturn(used, tokenBudget) == Returned(FALSE, ExitError(used, tokenBudget))

\* the iteration's block-scoped values (context, decision, result) are
\* dropped once nothing reads them any more
EndIteration(e) ==
  /\ decision' = [decision EXCEPT ![e] = NoDecision]
  /\ result' = [result EXCEPT ![e] = NoResult]
  /\ context' = [context EXCEPT ![e] = <<>>]

\* back to the loop top for the next iteration (the call log of the
\* iteration is kept until the next one starts)
NextIteration(e) ==
  /\ EndIteration(e)
  /\ pc' = [pc EXCEPT ![e] = "top"]

\* loop top: start an iteration (count it, persist the count, snapshot the
\* context) or leave the loop with the failure of the cap
LoopTop(e) ==
  /\ pc[e] = "top"
  /\ IF LoopCondition(iteration[e], max_iterations, usedTokens[e], TokenBudget)
     THEN /\ iteration' = [iteration EXCEPT ![e] = @ + 1]
          /\ iteration_count' = iteration_count + 1
          /\ context' = [context EXCEPT ![e] = buildExecutionContext(task_queue)]
          /\ calls' = [calls EXCEPT ![e] = <<"incrementIteration">>]
          /\ pc' = [pc EXCEPT ![e] = "plan"]
          /\ UNCHANGED ret
     ELSE /\ ret' = [ret EXCEPT ![e] = ExitReturn(usedTokens[e], TokenBudget)]
          /\ pc' = [pc EXCEPT ![e] = "done"]
          /\ UNCHANGED <<iteration, iteration_count, context, calls>>
  /\ UNCHANGED <<status, task_queue, knowledge_base,
                 generation_output, messages, total_tokens_used, config,
                 usedTokens, decision, result, userInputCallback,
                 noDecisions>>

\* console.error("Error in selectNextDecision:", error) of the catch
selectNextDecisionLog(response) ==
  IF tryParseDecision(response) = Raised THEN <<"console.error">> ELSE <<>>

\* selectNextDecision: ask the planner; no decision continues the loop at
\* its top, an exception it let through reaches the catch of the invocation
PlanFrom(e, responses) ==
  /\ pc[e] = "plan"
  /\ \E response \in responses :
       LET d == selectNextDecision(response) IN
       IF d = Raised
       THEN /\ Throw(e)
            /\ UNCHANGED <<noDecisions, calls>>
       ELSE IF d = NoDecision
       THEN /\ noDecisions' = [noDecisions EXCEPT ![e] = @ + 1]
            /\ Call(e, selectNextDecisionLog(response))
            /\ NextIteration(e)
            /\ UNCHANGED <<status, ret>>
       ELSE /\ decision' = [decision EXCEPT ![e] = d]
            /\ pc' = [pc EXCEPT ![e] = "adjust"]
            /\ UNCHANGED <<status, ret, noDecisions, result, context, calls>>
  /\ UNCHANGED <<task_queue, knowledge_base, generation_output, messages,
                 iteration_count, total_tokens_used, config, iteration, usedTokens,
                 userInputCallback>>

\* the planning step over every response explored
Plan(e) == PlanFrom(e, PlannerResponses)

\* taskAdjustment.taskDescription || "Task optimization"
newTaskDescriptionOfDefault(taskDescription, queue) ==
  IF Truthy(taskDescription) THEN taskDescription ELSE "Task optimization"

\* taskAdjustment.taskDescription || currentTaskInfo.task?.description
\*   || "Task optimization"
newTaskDescriptionOf(taskDescription, queue) ==
  IF Truthy(taskDescription) THEN taskDescription
  ELSE IF queue # <<>> /\ Truthy(Head(queue).description) THEN Head(queue).description
  ELSE "Task optimization"

\* currentTaskInfo.task?.sub_problems?.length || 0
currentSubproblemCountOf(queue) ==
  IF queue = <<>> THEN 0 ELSE Len(Head(queue).sub_problems)

\* a loop that builds the context anew after the adjustment
ContextAfterAdjustmentRebuilt(e) ==
  context' = [context EXCEPT ![e] = buildExecutionContext(task_queue')]

\* `const context` of the iteration is built once, before the planner is
\* asked, and handed to executeDecision as it is
ContextAfterAdjustment(e) == UNCHANGED context

\* applyTaskAdjustment has returned: the loop goes on to the dispatch (the
\* adjustment of the decision is read no more)
AdjustmentReturns(e) ==
  /\ decision' = [decision EXCEPT ![e].taskAdjustment = NoAdjustment]
  /\ pc' = [pc EXCEPT ![e] = "dispatch"]
  /\ ContextAfterAdjustment(e)
  /\ UNCHANGED <<status, ret, result>>

\* a catch of applyTaskAdjustment that hands the exception on to the catch
\* of the invocation
AdjustmentRethrown(e) == Throw(e)

\* the catch of applyTaskAdjustment: log, "continue with execution even if
\* optimization fails"
AdjustmentCaught(e) == AdjustmentReturns(e)

\* applyTaskAdjustment: rewrite the active task under the two constraints
\* and log it; a failure of the persistence layer is swallowed
ApplyTaskAdjustment(e) ==
  /\ pc[e] = "adjust"
  /\ \/ LET adj == decision[e].taskAdjustment
            final == finalSubproblemsOf(adj.newSubproblems,
                                        currentSubproblemCountOf(task_queue))
        IN /\ task_queue' = modifyCurrentTaskAndSubproblems(
                              task_queue,
                              newTaskDescriptionOf(adj.taskDescription, task_queue),
                              final)
           /\ messages' = addMessage(messages, "system_info")
           /\ AdjustmentReturns(e)
     \/ /\ UNCHANGED <<task_queue, messages>>
        /\ AdjustmentCaught(e)
  /\ UNCHANGED <<knowledge_base, generation_output,
                 iteration_count, total_tokens_used, config,
                 iteration, usedTokens,
                 userInputCallback, calls, noDecisions>>

\* executeDecision up to its await of the tool: set EXECUTING, log the
\* action (not for ASK_USER) and hand the decision with its parameters to
\* the registry
ExecuteDecision(e) ==
  /\ pc[e] = "dispatch"
  /\ status' = "EXECUTING"
  /\ messages' = IF decision[e].tool # "ASK_USER"
                 THEN addMessage(messages, "agent_action") ELSE messages
  /\ Call(e, <<decision[e].tool>>)
  /\ pc' = [pc EXCEPT ![e] = "executing"]
  /\ UNCHANGED <<task_queue, knowledge_base, generation_output,
                 iteration_count, total_tokens_used, config,
                 iteration, usedTokens, decision, result, context,
                 userInputCallback, ret, noDecisions>>

\* executeDecision returns the registry's result to the loop
ExecuteReturns(e, r) ==
  /\ result' = [result EXCEPT ![e] = r]
  /\ decision' = [decision EXCEPT ![e].parameters = <<>>]
  /\ pc' = [pc EXCEPT ![e] = "handle"]
  /\ UNCHANGED <<status, ret, context>>

\* an exception of the tool's execute that leaves the registry
ExecuteRethrown(e) == Throw(e)

\* the registry's catch around the tool's execute: the exception becomes a
\* failure result with the exception's message
ExecuteCaught(e) == \E m \in ThrownMessages : ExecuteReturns(e, FailureResult(m))

\* the dispatched tool returns its result through the registry, or throws
ToolReturns(e) ==
  /\ pc[e] = "executing"
  /\ \/ \E r \in executeToolDecision(decision[e].tool) : ExecuteReturns(e, r)
     \/ toolsGet(decision[e].tool).defined /\ ExecuteCaught(e)
  /\ UNCHANGED <<task_queue, knowledge_base, generation_output, messages,
                 iteration_count, total_tokens_used, config, iteration,
                 usedTokens, userInputCallback, calls, noDecisions>>

\* a failure analysis whose catch only logs
analyzeToolFailureNoFallback(analysisThrows) ==
  IF analysisThrows THEN <<>> ELSE <<"tool_failure">>

\* analyzeToolFailure: the types of the messages it records; the analysis
\* when the secondary planner request and its parsing succeed, the fallback
\* of the catch when they throw
analyzeToolFailure(analysisThrows) ==
  IF analysisThrows THEN <<"tool_failure">> ELSE <<"tool_failure">>

\* addMessage for each type of the list, in order
RECURSIVE addMessages(_, _)
addMessages(log, types) ==
  IF types = <<>> THEN log
  ELSE addMessages(addMessage(log, Head(types)), Tail(types))

\* tool failure: analyzeToolFailure records its message and the loop
\* continues
HandleFailure(e) ==
  /\ pc[e] = "handle"
  /\ ~result[e].success
  /\ \E analysisThrows \in BOOLEAN :
       LET recorded == analyzeToolFailure(analysisThrows) IN
         /\ messages' = addMessages(messages, recorded)
         /\ Call(e, [i \in 1..Len(recorded) |-> "addMessage"])
  /\ NextIteration(e)
  /\ UNCHANGED <<status, task_queue, knowledge_base,
                 generation_output, iteration_count, total_tokens_used, config,
                 iteration, usedTokens,
                 userInputCallback, ret, noDecisions>>

\* the data of a successful result (result.result?.<payload field>)
DataOf(r) == IF r.result.defined THEN r.result.value.data ELSE Absent

\* a handler that does not complete the active sub-problem
PopSkipped(queue) == task_queue' = queue

\* completeCurrentSubProblem on the persisted queue
Pop(queue) == task_queue' = completeCurrentSubProblem(queue)

\* the success branches without the early `continue` of the failure branch
SucceededUnchecked(e, tools) ==
  /\ pc[e] = "handle"
  /\ decision[e].tool \in tools

\* a success branch of the loop: reached past the failure branch, guarded
\* by decision.tool === <tool> && result.success
Succeeded(e, tools) ==
  /\ pc[e] = "handle"
  /\ result[e].success
  /\ decision[e].tool \in tools

\* SEARCH: merge the returned entries into the knowledge base, complete the
\* active sub-problem
HandleSearch(e) ==
  /\ Succeeded(e, {"SEARCH"})
  /\ LET entries == DataOf(result[e]) IN
       IF entries.defined /\ Cardinality(entries.value) > 0
       THEN /\ knowledge_base' = knowledge_base \cup entries.value
            /\ Call(e, <<"addKnowledgeEntries", "completeCurrentSubProblem">>)
       ELSE /\ UNCHANGED knowledge_base
            /\ Call(e, <<"completeCurrentSubProblem">>)
  /\ Pop(task_queue)
  /\ EndIteration(e)
  /\ pc' = [pc EXCEPT ![e] = "check"]
  /\ UNCHANGED <<status, generation_output, messages, iteration_count,
                 total_tokens_used, config, iteration, usedTokens,
                 userInputCallback, ret, noDecisions>>

\* a check that finds a callback whether or not one is registered
HasCallbackAlways(e) == TRUE

\* a check that never finds the registered callback
HasCallbackNever(e) == FALSE

\* if (this.userInputCallback)
HasCallback(e) == userInputCallback[e]

\* ASK_USER: set WAITING_USER and log the prompt; with a callback go on to
\* ask it, without one return the paused result
HandleAskUser(e) ==
  /\ Succeeded(e, {"ASK_USER"})
  /\ status' = "WAITING_USER"
  /\ messages' = addMessage(messages, "agent_action")
  /\ Call(e, <<"updateStatus", "addMessage">>)
  /\ IF HasCallback(e)
     THEN /\ pc' = [pc EXCEPT ![e] = "await_user"]
          /\ UNCHANGED ret
     ELSE /\ pc' = [pc EXCEPT ![e] = "done"]
          /\ ret' = [ret EXCEPT ![e] = Returned(TRUE, "paused")]
  /\ EndIteration(e)
  /\ UNCHANGED <<task_queue, knowledge_base, generation_output,
                 iteration_count, total_tokens_used, config,
                 iteration, usedTokens, userInputCallback, noDecisions>>

\* a catch of the callback's failure that logs it and goes on
UserInputFailedIgnored(e) ==
  /\ Call(e, <<"requestUserInput">>)
  /\ pc' = [pc EXCEPT ![e] = "check"]
  /\ UNCHANGED <<status, ret, messages, task_queue>>

\* the catch of the callback's failure: mark FAILED, return the failure
UserInputFailed(e) ==
  /\ status' = "FAILED"
  /\ ret' = [ret EXCEPT ![e] = Returned(FALSE, "Failed to get user input")]
  /\ Call(e, <<"requestUserInput", "updateStatus">>)
  /\ pc' = [pc EXCEPT ![e] = "done"]
  /\ UNCHANGED <<messages, task_queue>>

\* the callback answers: log the user's input and complete the active
\* sub-problem; or it fails: mark FAILED and return the failure
AwaitUserInput(e) ==
  /\ pc[e] = "await_user"
  /\ \/ /\ messages' = addMessage(messages, "user_input")
        /\ Pop(task_queue)
        /\ Call(e, <<"requestUserInput", "addMessage", "completeCurrentSubProblem">>)
        /\ pc' = [pc EXCEPT ![e] = "check"]
        /\ UNCHANGED <<status, ret>>
     \/ UserInputFailed(e)
  /\ UNCHANGED <<decision, result, context, knowledge_base, generation_output, iteration_count,
                 total_tokens_used, config, iteration, usedTokens,
                 userInputCallback, noDecisions>>

\* CHARACTER, STATUS, USER_SETTING, WORLD_VIEW, SUPPLEMENT: write the
\* returned category, complete the active sub-problem
HandleContent(e) ==
  /\ Succeeded(e, ContentTools)
  /\ LET data == DataOf(result[e]) IN
       /\ generation_output' = applyContent(generation_output, decision[e].tool, data)
       /\ IF data.defined
          THEN Call(e, <<IF decision[e].tool = "CHARACTER" THEN "updateGenerationOutput"
                         ELSE "appendWorldbookData", "completeCurrentSubProblem">>)
          ELSE Call(e, <<"completeCurrentSubProblem">>)
  /\ Pop(task_queue)
  /\ EndIteration(e)
  /\ pc' = [pc EXCEPT ![e] = "check"]
  /\ UNCHANGED <<status, knowledge_base, messages, iteration_count,
                 total_tokens_used, config, iteration, usedTokens,
                 userInputCallback, ret, noDecisions>>

\* a REFLECT handler that adds no tasks
queueAfterReflectSkipped(queue, new_tasks) == queue

\* if (result.result.new_tasks && result.result.new_tasks.length > 0)
\*   addTasksToQueue(conversationId, result.result.new_tasks)
queueAfterReflect(queue, new_tasks) ==
  IF new_tasks.defined /\ Len(new_tasks.value) > 0
  THEN addTasksToQueue(queue, new_tasks.value)
  ELSE queue

\* REFLECT: append the proposed tasks to the queue, complete the active
\* sub-problem; a result without payload raises to the top-level catch
HandleReflect(e) ==
  /\ Succeeded(e, {"REFLECT"})
  /\ IF ~result[e].result.defined
     THEN /\ Throw(e)
          /\ UNCHANGED <<task_queue, calls>>
     ELSE LET new_tasks == DataOf(result[e])
              queue == queueAfterReflect(task_queue, new_tasks)
          IN /\ Pop(queue)
             /\ IF queue # task_queue
                THEN Call(e, <<"addTasksToQueue", "completeCurrentSubProblem">>)
                ELSE Call(e, <<"completeCurrentSubProblem">>)
             /\ pc' = [pc EXCEPT ![e] = "check"]
             /\ EndIteration(e)
             /\ UNCHANGED <<status, ret>>
  /\ UNCHANGED <<knowledge_base, generation_output, messages, iteration_count,
                 total_tokens_used, config, iteration, usedTokens,
                 userInputCallback, noDecisions>>

\* a COMPLETE handler that does not look at the payload's flag
FinishedUnchecked(payload) == TRUE

\* result.result.finished === true
Finished(payload) == payload.finished = TRUE

\* COMPLETE: when the payload says finished, clear the queue and complete
\* the active sub-problem; a result without payload raises
HandleComplete(e) ==
  /\ Succeeded(e, {"COMPLETE"})
  /\ IF ~result[e].result.defined
     THEN /\ Throw(e)
          /\ UNCHANGED <<task_queue, calls>>
     ELSE /\ IF Finished(result[e].result.value)
             THEN /\ Pop(<<>>)
                  /\ Call(e, <<"clearAllTasks", "completeCurrentSubProblem">>)
             ELSE UNCHANGED <<task_queue, calls>>
          /\ pc' = [pc EXCEPT ![e] = "check"]
          /\ EndIteration(e)
          /\ UNCHANGED <<status, ret>>
  /\ UNCHANGED <<knowledge_base, generation_output, messages, iteration_count,
                 total_tokens_used, config, iteration, usedTokens,
                 userInputCallback, noDecisions>>

\* end of iteration: on an empty queue evaluate the output; satisfied marks
\* the session COMPLETED and returns, otherwise the deficiency is logged;
\* then the pacing delay
QueueCheck(e) ==
  /\ pc[e] = "check"
  /\ IF task_queue = <<>>
     THEN IF Satisfied(generation_output)
          THEN /\ messages' = addMessage(messages, "completion_actions")
               /\ status' = "COMPLETED"
               /\ ret' = [ret EXCEPT ![e] = Returned(TRUE, "final")]
               /\ Call(e, <<"evaluateGenerationProgress", "updateStatus">>)
               /\ pc' = [pc EXCEPT ![e] = "done"]
          ELSE /\ messages' = addMessage(messages, "quality_evaluation")
               /\ Call(e, <<"evaluateGenerationProgress">>)
               /\ pc' = [pc EXCEPT ![e] = "delay"]
               /\ UNCHANGED <<status, ret>>
     ELSE /\ UNCHANGED calls
          /\ pc' = [pc EXCEPT ![e] = "delay"]
          /\ UNCHANGED <<status, ret, messages>>
  /\ UNCHANGED <<decision, result, context, task_queue, knowledge_base, generation_output,
                 iteration_count, total_tokens_used, config,
                 iteration, usedTokens, userInputCallback, noDecisions>>

\* the pacing delay that ends an iteration
Delay(e) ==
  /\ pc[e] = "delay"
  /\ Call(e, <<"setTimeout">>)
  /\ NextIteration(e)
  /\ UNCHANGED <<session, config, iteration, usedTokens,
                 userInputCallback, ret, noDecisions>>

\* the planner and the tools spend tokens while the loop awaits them; the
\* collaborator that accounts for them raises the session's usage
RecordTokenUsage ==
  /\ \E e \in engines : pc[e] = "plan"
  /\ total_tokens_used < TokenBudget
  /\ total_tokens_used' = total_tokens_used + 1
  /\ UNCHANGED <<status, task_queue, knowledge_base,
                 generation_output, messages, iteration_count, config, locals>>

Next ==
  \/ \E e \in Engines : Start(e)
  \/ \E e \in Engines : Initialize(e)
  \/ \E e \in Engines : ContinueExecution(e)
  \/ \E e \in Engines : LoopTop(e)
  \/ \E e \in Engines : Plan(e)
  \/ \E e \in Engines : ApplyTaskAdjustment(e)
  \/ \E e \in Engines : ExecuteDecision(e)
  \/ \E e \in Engines : ToolReturns(e)
  \/ \E e \in Engines : HandleFailure(e)
  \/ \E e \in Engines : HandleSearch(e)
  \/ \E e \in Engines : HandleAskUser(e)
  \/ \E e \in Engines : AwaitUserInput(e)
  \/ \E e \in Engines : HandleContent(e)
  \/ \E e \in Engines : HandleReflect(e)
  \/ \E e \in Engines : HandleComplete(e)
  \/ \E e \in Engines : QueueCheck(e)
  \/ \E e \in Engines : Delay(e)
  \/ RecordTokenUsage

Spec == Init /\ [][Next]_vars

\* two engine instances constructed on the same session (continueExecution
\* "can be called on a fresh engine instance"), whose invocations interleave
\* at their awaits
InitTwoEngines ==
  /\ SessionInit /\ LocalInit
  /\ engines = Engines
  /\ dynamicTools = {}

\* the planner's responses while two engines run: a search or no action
TwoEnginesResponses ==
  { r \in PlannerResponses :
      /\ ~r.throws /\ r.isText
      /\ r.action \in {"SEARCH", "null"}
      /\ r.task_description = Undefined /\ r.new_subproblems = <<>>
      /\ r.parameters = <<>> }

\* the steps of start, continueExecution and the loop that those responses
\* lead through
NextTwoEngines ==
  \/ \E e \in Engines : Start(e)
  \/ \E e \in Engines : Initialize(e)
  \/ \E e \in Engines : ContinueExecution(e)
  \/ \E e \in Engines : LoopTop(e)
  \/ \E e \in Engines : PlanFrom(e, TwoEnginesResponses)
  \/ \E e \in Engines : ApplyTaskAdjustment(e)
  \/ \E e \in Engines : ExecuteDecision(e)
  \/ \E e \in Engines : ToolReturns(e)
  \/ \E e \in Engines : HandleFailure(e)
  \/ \E e \in Engines : HandleSearch(e)
  \/ \E e \in Engines : QueueCheck(e)
  \/ \E e \in Engines : Delay(e)

SpecTwoEngines == InitTwoEngines /\ [][NextTwoEngines]_vars

\* the registry with tools registered and unregistered at run time while an
\* engine runs
InitRegistry ==
  /\ SessionInit /\ LocalInit
  /\ engines = {1}
  /\ dynamicTools = {}

RegisterDynamicTool(toolName) ==
  /\ dynamicTools' = registerDynamicTool(dynamicTools, toolName)
  /\ UNCHANGED <<session, locals, engines, max_iterations>>

UnregisterDynamicTool(toolName) ==
  /\ dynamicTools' = unregisterDynamicTool(dynamicTools, toolName)
  /\ UNCHANGED <<session, locals, engines, max_iterations>>

\* the planner's responses while tools are registered: a static tool, a
\* dynamic tool's name, or a name of no tool
RegistryResponses ==
  { Response(FALSE, TRUE, a, <<Undefined, <<>>>>, <<>>) :
      a \in {"SEARCH", UnknownTool} \cup DynamicToolNames }

NextRegistry ==
  \/ \E toolName \in DynamicToolNames : RegisterDynamicTool(toolName)
  \/ \E toolName \in DynamicToolNames : UnregisterDynamicTool(toolName)
  \/ \E e \in Engines : Start(e)
  \/ \E e \in Engines : Initialize(e)
  \/ \E e \in Engines : ContinueExecution(e)
  \/ \E e \in Engines : LoopTop(e)
  \/ \E e \in Engines : PlanFrom(e, RegistryResponses)
  \/ \E e \in Engines : ApplyTaskAdjustment(e)
  \/ \E e \in Engines : ExecuteDecision(e)
  \/ \E e \in Engines : ToolReturns(e)
  \/ \E e \in Engines : HandleFailure(e)
  \/ \E e \in Engines : HandleSearch(e)
  \/ \E e \in Engines : QueueCheck(e)
  \/ \E e \in Engines : Delay(e)

SpecRegistry == InitRegistry /\ [][NextRegistry]_vars

(***************************************************************************)
(* Properties.                                                             *)
(***************************************************************************)
\* x occurs in the sequence s
Has(s, x) == \E i \in 1..Len(s) : s[i] = x

\* number of occurrences of x in the sequence s
Count(s, x) == Cardinality({i \in 1..Len(s) : s[i] = x})

Min(a, b) == IF a <= b THEN a ELSE b

\* engine e starts a loop iteration in this step
StartsIteration(e) == pc[e] = "top" /\ pc'[e] = "plan"

\* C1: one invocation runs at most max_iterations iterations and then
\* returns (the failure of the cap), whatever the planner answers; every
\* iteration, a no-decision one included, raises the persisted iteration
\* counter by exactly one, and nothing else raises it.
C1_IterationsBoundedPerInvocation ==
  [][/\ \A e \in Engines :
          /\ iteration'[e] <= max_iterations
          /\ StartsIteration(e) => iteration'[e] = iteration[e] + 1
          /\ (pc[e] = "top" /\ iteration[e] >= max_iterations /\ pc'[e] # pc[e])
               => (pc'[e] = "done" /\ ~ret'[e].success)
     /\ iteration_count' =
          iteration_count + Cardinality({e \in Engines : StartsIteration(e)})]_vars

\* an invocation returned the failure of the iteration cap after
\* max_iterations iterations that all had no decision
C1_Witness ==
  \E e \in engines :
    /\ pc[e] = "done"
    /\ ret[e] = Returned(FALSE, "Maximum iterations reached without completion")
    /\ iteration[e] = max_iterations
    /\ noDecisions[e] = max_iterations
    /\ iteration_count = max_iterations

StructurallyComplete(output) ==
  /\ output.character_data.defined
  /\ \A f \in CharFieldSet : ~FieldEmpty(output.character_data.value, f)
  /\ \A c \in {"status_data", "user_setting_data", "world_view_data"} :
       output[c].defined /\ ValidEntry(output[c].value)
  /\ output.supplement_data.defined
  /\ Len(validSupplementEntries(output.supplement_data.value)) >= MinSupplement

\* C3: the Completion Evaluator is satisfied with the session's generation
\* output only if the output is structurally complete, singleton
\* categories with non-empty content included.
C3_SatisfiedOnlyIfStructurallyComplete ==
  Satisfied(generation_output) => StructurallyComplete(generation_output)

\* engine e enters the execution loop through continueExecution in this step
Resumes(e) == pc[e] \in {"idle", "done"} /\ pc'[e] = "top"

\* C4: continueExecution on a session whose status is WAITING_USER or
\* THINKING issues exactly one completion of the active sub-problem before
\* the resumed loop's first iteration.
C4_ResumeCompletesOnce ==
  [][\A e \in Engines :
       (Resumes(e) /\ status \in {"WAITING_USER", "THINKING"})
         => /\ Count(calls'[e], "completeCurrentSubProblem") = 1
            /\ task_queue' = completeCurrentSubProblem(task_queue)]_vars

\* C5: an invocation whose iterations all had no decision does not run
\* into the iteration cap on a session with an empty queue and an output
\* the evaluator is satisfied with: the queue check of a no-decision
\* iteration would have completed the session.
C5_NoDecisionStillChecksQueue ==
  \A e \in Engines :
    (/\ pc[e] = "done"
     /\ ret[e] = Returned(FALSE, "Maximum iterations reached without completion")
     /\ iteration[e] > 0
     /\ noDecisions[e] = iteration[e])
      => ~(task_queue = <<>> /\ Satisfied(generation_output))

\* the queue a successful tool's side effect leaves, before the completion
QueueAfterSideEffect(e) ==
  CASE decision[e].tool = "REFLECT" ->
         IF DataOf(result[e]).defined THEN task_queue \o DataOf(result[e]).value
         ELSE task_queue
    [] decision[e].tool = "COMPLETE" -> <<>>
    [] OTHER -> task_queue

\* the last call of the iteration so far
LastCall(e) == calls[e][Len(calls[e])]

\* C6 (as amended): a successful dispatch that reaches the end-of-iteration
\* check has applied its side effect and then completed the active
\* sub-problem exactly once, as the last call of the handler, except a
\* COMPLETE whose payload does not say finished = true, which changes
\* nothing and completes nothing; a successful dispatch that does not reach
\* the check completes nothing: ASK_USER waits for the user (whose answer
\* then completes the sub-problem exactly once), REFLECT or COMPLETE without
\* a payload raise.
C6_SuccessfulDispatchCompletesOnce ==
  [][\A e \in Engines :
       /\ (pc[e] = "handle" /\ result[e].success /\ pc'[e] = "check")
            => IF decision[e].tool = "COMPLETE" /\ ~result[e].result.value.finished
               THEN /\ Count(calls'[e], "completeCurrentSubProblem") = 0
                    /\ UNCHANGED <<task_queue, knowledge_base, generation_output>>
               ELSE /\ Count(calls'[e], "completeCurrentSubProblem") = 1
                    /\ LastCall(e)' = "completeCurrentSubProblem"
                    /\ task_queue' = completeCurrentSubProblem(QueueAfterSideEffect(e))
                    /\ generation_output' =
                         IF decision[e].tool \in ContentTools
                         THEN applyContent(generation_output, decision[e].tool,
                                           DataOf(result[e]))
                         ELSE generation_output
                    /\ knowledge_base' =
                         IF decision[e].tool = "SEARCH" /\ DataOf(result[e]).defined
                         THEN knowledge_base \cup DataOf(result[e]).value
                         ELSE knowledge_base
       /\ (pc[e] = "handle" /\ result[e].success /\ pc'[e] \notin {"handle", "check"})
            => /\ Count(calls'[e], "completeCurrentSubProblem") = 0
               /\ UNCHANGED <<task_queue, knowledge_base, generation_output>>
               /\ \/ decision[e].tool = "ASK_USER"
                  \/ decision[e].tool \in {"REFLECT", "COMPLETE"} /\ ~result[e].result.defined
       /\ (pc[e] = "await_user" /\ pc'[e] = "check")
            => /\ Count(calls'[e], "completeCurrentSubProblem") = 1
               /\ LastCall(e)' = "completeCurrentSubProblem"
               /\ task_queue' = completeCurrentSubProblem(task_queue)]_vars

\* a successful REFLECT has appended its tasks and then completed the
\* active sub-problem, once
C6_Witness ==
  \E e \in engines :
    /\ pc[e] = "check"
    /\ calls[e] = <<"incrementIteration", "REFLECT", "addTasksToQueue",
                    "completeCurrentSubProblem">>
    /\ Len(task_queue) > 1

\* C6 (as stated): every successful dispatch, of every tool kind, is
\* followed in its iteration by exactly one completion of the active
\* sub-problem.
C6_EverySuccessCompletesOnce ==
  [][\A e \in Engines :
       /\ (pc[e] = "handle" /\ result[e].success /\ pc'[e] \in {"check", "done"})
            => Count(calls'[e], "completeCurrentSubProblem") = 1
       /\ (pc[e] = "await_user" /\ pc'[e] # pc[e])
            => Count(calls'[e], "completeCurrentSubProblem") = 1]_vars

\* C7: after a failed dispatch the one step taken records a tool_failure
\* message, leaves the queue, the knowledge base and the generation output
\* alone, issues no completion, does not mark the session FAILED, returns
\* nothing and is back at the loop top.
C7_FailureContinuesWithoutCompletion ==
  [][\A e \in Engines :
       (pc[e] = "handle" /\ ~result[e].success /\ pc'[e] # pc[e])
         => /\ messages' = <<"tool_failure">>
            /\ UNCHANGED <<task_queue, knowledge_base, generation_output>>
            /\ ~Has(calls'[e], "completeCurrentSubProblem")
            /\ status' = status /\ status' # "FAILED"
            /\ ret'[e] = NoReturn
            /\ pc'[e] = "top"]_vars

\* a failed dispatch has been analysed and the loop is at its top again
C7_Witness ==
  \E e \in engines :
    /\ pc[e] = "top"
    /\ iteration[e] > 0
    /\ messages = <<"tool_failure">>
    /\ status = "EXECUTING"
    /\ ret[e] = NoReturn

\* C8: the sub-problem list an adjustment hands over has at most
\* min(MaxSubproblems, previous count) entries, each non-empty after
\* trimming; the adjustment step never raises the active task's
\* sub-problem count, and sub-problems it rewrites are that list.
C8_AdjustmentNeverGrowsSubproblems ==
  [][\A e \in Engines :
       (pc[e] = "adjust" /\ pc'[e] # pc[e])
         => LET count == currentSubproblemCountOf(task_queue)
                final == finalSubproblemsOf(decision[e].taskAdjustment.newSubproblems, count)
            IN /\ Len(final) <= Min(MaxSubproblems, count)
               /\ \A i \in 1..Len(final) : Trim(final[i]) # ""
               /\ currentSubproblemCountOf(task_queue') <= count
               /\ Len(task_queue') = Len(task_queue)
               /\ (task_queue # <<>>
                     /\ Head(task_queue').sub_problems # Head(task_queue).sub_problems)
                    => Head(task_queue').sub_problems = final]_vars

\* an adjustment asking for four sub-problems has rewritten an active task
\* of two sub-problems with two
C8_Witness ==
  \E e \in engines :
    /\ pc[e] = "dispatch"
    /\ task_queue # <<>>
    /\ Head(task_queue).sub_problems = <<"a", "b">>
    /\ messages = <<"system_info">>

\* C9: the session's persisted iteration count never exceeds
\* max_iterations, over any sequence of invocations.
C9_IterationCountCappedCumulatively ==
  iteration_count <= max_iterations

\* C10: no iteration starts while the session's cumulative token usage is
\* at or above the token budget.
C10_NoIterationOverTokenBudget ==
  [][\A e \in Engines : StartsIteration(e) => total_tokens_used < TokenBudget]_vars

\* C11: the failure returned when the loop exits names the cap: "Token
\* budget exceeded" exactly when the session's token usage is at or above
\* the budget at the exit, the iteration cap otherwise.
C11_ExitErrorNamesTheCap ==
  [][\A e \in Engines :
       (pc[e] = "top" /\ pc'[e] = "done")
         => /\ ~ret'[e].success
            /\ ret'[e].what = IF total_tokens_used >= TokenBudget
                              THEN "Token budget exceeded"
                              ELSE "Maximum iterations reached without completion"]_vars

\* engine e handles a successful ASK_USER in this step
HandlesAskUser(e) ==
  /\ pc[e] = "handle" /\ pc'[e] # pc[e]
  /\ result[e].success
  /\ decision[e].tool = "ASK_USER"

\* C12: a successful ASK_USER with no callback registered sets
\* WAITING_USER, appends one prompt message, completes no sub-problem and
\* returns the paused result with success = true; the invocation is over.
C12_AskUserWithoutCallbackPauses ==
  [][\A e \in Engines :
       (HandlesAskUser(e) /\ ~userInputCallback[e])
         => /\ status' = "WAITING_USER"
            /\ messages' = <<"agent_action">>
            /\ Count(calls'[e], "addMessage") = 1
            /\ ~Has(calls'[e], "completeCurrentSubProblem")
            /\ UNCHANGED <<task_queue, iteration_count>>
            /\ ret'[e] = Returned(TRUE, "paused")
            /\ pc'[e] = "done"]_vars

\* an invocation without callback has paused on ASK_USER with the active
\* sub-problem still in the queue
C12_Witness ==
  \E e \in engines :
    /\ pc[e] = "done"
    /\ ret[e] = Returned(TRUE, "paused")
    /\ ~userInputCallback[e]
    /\ status = "WAITING_USER"
    /\ messages = <<"agent_action">>
    /\ task_queue # <<>>

\* C13: a successful ASK_USER with a callback registered sets
\* WAITING_USER, appends the prompt and asks the callback instead of
\* returning; the callback's answer is appended as a user message after
\* the prompt, the active sub-problem is completed exactly once, and the
\* invocation goes on to the end-of-iteration check without returning.
C13_AskUserWithCallbackResumes ==
  [][\A e \in Engines :
       /\ (HandlesAskUser(e) /\ userInputCallback[e])
            => /\ status' = "WAITING_USER"
               /\ messages' = <<"agent_action">>
               /\ calls'[e] = calls[e] \o <<"updateStatus", "addMessage">>
               /\ UNCHANGED task_queue
               /\ ret'[e] = NoReturn
               /\ pc'[e] = "await_user"
       /\ (pc[e] = "await_user" /\ pc'[e] # pc[e] /\ messages' = <<"user_input">>)
            => /\ calls'[e] = calls[e] \o <<"requestUserInput", "addMessage",
                                            "completeCurrentSubProblem">>
               /\ Count(calls'[e], "completeCurrentSubProblem") = 1
               /\ task_queue' = completeCurrentSubProblem(task_queue)
               /\ status' = status
               /\ ret'[e] = NoReturn
               /\ pc'[e] = "check"]_vars

\* the callback has answered: prompt, answer and one completion are logged
\* and the invocation is at the end-of-iteration check
C13_Witness ==
  \E e \in engines :
    /\ pc[e] = "check"
    /\ userInputCallback[e]
    /\ messages = <<"user_input">>
    /\ calls[e] = <<"incrementIteration", "ASK_USER", "updateStatus", "addMessage",
                    "requestUserInput", "addMessage", "completeCurrentSubProblem">>
    /\ ret[e] = NoReturn

\* C14: when the callback asked on ASK_USER gives no answer (no user
\* message is recorded), the session is marked FAILED, the invocation
\* returns the failure, the active sub-problem is not completed and the
\* invocation is over.
C14_CallbackFailureIsFatal ==
  [][\A e \in Engines :
       (pc[e] = "await_user" /\ pc'[e] # pc[e] /\ messages' # <<"user_input">>)
         => /\ status' = "FAILED"
            /\ ret'[e] = Returned(FALSE, "Failed to get user input")
            /\ UNCHANGED <<messages, task_queue, iteration_count>>
            /\ ~Has(calls'[e], "completeCurrentSubProblem")
            /\ pc'[e] = "done"]_vars

\* the callback has failed on a session with work left
C14_Witness ==
  \E e \in engines :
    /\ pc[e] = "done"
    /\ ret[e] = Returned(FALSE, "Failed to get user input")
    /\ status = "FAILED"
    /\ messages = <<"agent_action">>
    /\ task_queue # <<>>

\* C15: decision parsing never raises past its boundary: whatever the
\* planner does (its call throws, its content is no text, the action is
\* missing, a parameter is a truncated array, has an odd number of quotes or
\* is otherwise malformed), the planning step ends with a decision or with
\* no decision; no decision is a consumed iteration and not a failure: the
\* session's status is left as it is, nothing is returned and the loop is
\* back at its top with the iteration counted.
C15_DecisionParsingNeverRaises ==
  [][\A e \in Engines :
       (pc[e] = "plan" /\ pc'[e] # pc[e])
         => /\ \A r \in PlannerResponses : selectNextDecision(r) # Raised
            /\ pc'[e] \in {"top", "adjust"}
            /\ decision'[e] # Raised
            /\ status' = status
            /\ ret'[e] = NoReturn
            /\ iteration'[e] = iteration[e] /\ iteration[e] >= 1
            /\ iteration_count' = iteration_count
            /\ (pc'[e] = "top" <=> decision'[e] = NoDecision)]_vars

\* the catch of the parsing has turned a failed planner request into no
\* decision, and the next iteration's decision carries a truncated array
\* with an odd number of quotes as the raw text
C15_Witness ==
  \E e \in engines :
    /\ pc[e] = "adjust"
    /\ noDecisions[e] = 1
    /\ iteration[e] = 2
    /\ decision[e].parameters
         = [query |-> JSONValue("raw", <<(<<"[", Quote, "a", Quote, ",", Quote, "b">>)>>)]
    /\ status # "FAILED"

\* the catch of the parsing has logged the error of a failed planner request
\* and the loop is back at its top
C15_CaughtWitness ==
  \E e \in engines :
    /\ pc[e] = "top"
    /\ calls[e] = <<"incrementIteration", "console.error">>
    /\ noDecisions[e] >= 1
    /\ ret[e] = NoReturn
    /\ status # "FAILED"

\* the action texts that stand for no action: the explicit sentinel and the
\* empty text
NoActionTexts == {"none", ""}

\* C16: a planner response with no action, or whose action is the explicit
\* "none" sentinel, yields no decision: the planning step never ends with a
\* decision whose tool is one of the no-action texts, and a step that ends
\* with no decision dispatches no tool, applies no adjustment, completes no
\* sub-problem and records no failure analysis.
C16_NoActionIsNoDecision ==
  [][\A e \in Engines :
       (pc[e] = "plan" /\ pc'[e] # pc[e])
         => /\ decision'[e].tool \notin NoActionTexts
            /\ decision'[e] = NoDecision
                 => /\ pc'[e] = "top"
                    /\ UNCHANGED <<task_queue, messages, status, knowledge_base,
                                   generation_output>>
                    /\ calls'[e] \in {calls[e], calls[e] \o <<"console.error">>}
                    /\ calls[e] = <<"incrementIteration">>]_vars

\* C17: Failure Analysis never aborts the loop: for every failed tool
\* dispatch, whether or not the secondary planner request fails, exactly
\* one message is appended, it is a tool_failure message, nothing is
\* returned, the session is not marked FAILED by it and the loop is at its
\* top for the next iteration.
C17_FailureAnalysisNeverAborts ==
  [][\A e \in Engines :
       (pc[e] = "handle" /\ pc'[e] # pc[e] /\ ~result[e].success)
         => /\ calls'[e] = calls[e] \o <<"addMessage">>
            /\ messages' = <<"tool_failure">>
            /\ status' = status
            /\ ret'[e] = NoReturn
            /\ pc'[e] = "top"]_vars

\* a failed dispatch has been analysed: one message after the tool, of type
\* tool_failure, and the invocation is still running in its loop
C17_Witness ==
  \E e \in engines :
    /\ pc[e] = "top"
    /\ Len(calls[e]) = 3
    /\ calls[e][2] \in ToolType
    /\ calls[e][3] = "addMessage"
    /\ messages = <<"tool_failure">>
    /\ status = "EXECUTING"
    /\ ret[e] = NoReturn

\* engine e runs initialize in this step
Initializes(e) == pc[e] = "initialize" /\ pc'[e] # pc[e]

\* C18: decomposition is idempotent: when start is invoked on a session
\* whose task queue is non-empty, initialize issues no planner request,
\* persists nothing and leaves the task queue (its order, its sub-problems)
\* and the message log unchanged; start goes on to the loop.
C18_DecompositionIdempotent ==
  [][\A e \in Engines :
       (Initializes(e) /\ context[e] # <<>>)
         => /\ task_queue' = task_queue
            /\ task_queue' = context[e]
            /\ messages' = messages
            /\ calls'[e] = <<>>
            /\ pc'[e] = "top"]_vars

\* start has skipped the decomposition on a seeded session and is at the
\* top of the loop, before its first iteration
C18_Witness ==
  \E e \in engines :
    /\ pc[e] = "top"
    /\ iteration[e] = 0
    /\ status = "THINKING"
    /\ calls[e] = <<>>
    /\ task_queue = <<Task("T1", <<"s1", "s2", "s3", "s4">>), Task("T2", <<"s1">>)>>
    /\ messages = <<>>

\* C19: a decomposition failure is recoverable: when the planner request
\* of the decomposition or its parsing throws (the request is the only
\* call of initialize), the task queue is left empty, the session is not
\* marked FAILED, nothing is returned and start enters the execution loop.
C19_DecompositionFailureRecoverable ==
  [][\A e \in Engines :
       (Initializes(e) /\ calls'[e] = <<"invoke">>)
         => /\ task_queue = <<>> /\ task_queue' = <<>>
            /\ status' = "THINKING"
            /\ ret'[e] = NoReturn
            /\ messages' = messages
            /\ pc'[e] = "top"
            /\ iteration'[e] = 0]_vars

\* the decomposition has failed and the invocation is in the loop on an
\* empty queue
C19_Witness ==
  \E e \in engines :
    /\ pc[e] = "top"
    /\ iteration[e] = 0
    /\ calls[e] = <<"invoke">>
    /\ task_queue = <<>>
    /\ status = "THINKING"
    /\ ret[e] = NoReturn

\* engine e takes a failing path in this step: it handles a failed tool
\* dispatch, marks the session FAILED, or returns a failure (interactive
\* input, iteration cap, token budget, top-level exception)
Fails(e) ==
  \/ pc[e] = "handle" /\ pc'[e] # pc[e] /\ ~result[e].success
  \/ status' = "FAILED" /\ pc'[e] # pc[e]
  \/ ret'[e] # ret[e] /\ ret'[e] # NoReturn /\ ~ret'[e].success

\* C20: partial generation output is never discarded on failure: a step on
\* a failing path (tool failure, interactive-input failure, iteration-cap
\* or token-budget exhaustion, top-level exception) writes nothing to the
\* generation output, so every category holds what it held before.
C20_FailureKeepsOutput ==
  [][\A e \in Engines : Fails(e) => generation_output' = generation_output]_vars

\* an invocation on the fresh session has written the status category and
\* then failed with a top-level exception: the category is still there
C20_Witness ==
  \E e \in engines :
    /\ pc[e] = "done"
    /\ ret[e] = Returned(FALSE, "exception")
    /\ status = "FAILED"
    /\ generation_output = [EmptyOutput EXCEPT !.status_data = Some(Entry("x"))]

\* engine e is inside an iteration of its loop
InIteration(e) ==
  pc[e] \in {"plan", "adjust", "dispatch", "executing", "handle", "await_user",
             "check", "delay"}

\* engine e has dispatched a tool that has not returned yet
Dispatching(e) == pc[e] = "executing"

\* C21: one thread of control per session: whatever way the invocations of
\* start and continueExecution on the session interleave, no two of them
\* are inside an iteration at the same time and no two tool dispatches are
\* in progress at the same time.
C21_SingleThreadOfControl ==
  \A e1, e2 \in Engines :
    e1 # e2 => /\ ~(InIteration(e1) /\ InIteration(e2))
               /\ ~(Dispatching(e1) /\ Dispatching(e2))

\* C21, its second half alone: no two tool dispatches of the session are in
\* progress at the same time
C21_NoOverlappingDispatch ==
  \A e1, e2 \in Engines : e1 # e2 => ~(Dispatching(e1) /\ Dispatching(e2))

\* a singleton worldbook category meets its requirement: present with
\* non-empty content
CategoryMet(output, c) == output[c].defined /\ ValidEntry(output[c].value)

\* number of supplement entries with non-empty content
ValidSupplementCount(output) ==
  IF output.supplement_data.defined
  THEN Len(validSupplementEntries(output.supplement_data.value)) ELSE 0

\* the first requirement the output does not meet, in the order character
\* fields, status, user-setting, world-view, supplement ("" when all are met)
FirstUnmetRequirement(output) ==
  IF \/ ~output.character_data.defined
     \/ \E f \in CharFieldSet : FieldEmpty(output.character_data.value, f)
    THEN "character_data"
  ELSE IF ~CategoryMet(output, "status_data") THEN "status_data"
  ELSE IF ~CategoryMet(output, "user_setting_data") THEN "user_setting_data"
  ELSE IF ~CategoryMet(output, "world_view_data") THEN "world_view_data"
  ELSE IF ValidSupplementCount(output) < MinSupplement THEN "supplement_data"
  ELSE ""

\* the category a verdict's reason names
NamedCategory(verdict) ==
  IF verdict.reason \in CharFieldSet THEN "character_data" ELSE verdict.reason

\* C22: an unsatisfied evaluation of the session's output names the first
\* unmet requirement in the order character fields, status, user-setting,
\* world-view, supplement; on the supplement axis, with k < 5 non-empty
\* entries, it reports that 5 - k more are needed.
C22_DeficiencyNamesFirstUnmet ==
  LET verdict == performBasicValidation(generation_output) IN
    ~verdict.isValid
      => /\ NamedCategory(verdict) = FirstUnmetRequirement(generation_output)
         /\ (verdict.reason = "supplement_data" /\ generation_output.supplement_data.defined)
              => verdict.need = MinSupplement - ValidSupplementCount(generation_output)

\* C23: after a decomposition that went through (planner request, queue
\* persisted, message added) on a session whose queue was empty, the task
\* queue holds between 5 and 8 tasks, in the order the planner listed them.
C23_DecompositionYieldsFiveToEight ==
  [][\A e \in Engines :
       (Initializes(e) /\ Has(calls'[e], "updateResearchState"))
         => /\ task_queue = <<>>
            /\ Len(task_queue') \in MinTasks..MaxTasks
            /\ \E r \in DecompositionResponses :
                 ~r.throws /\ task_queue' = parseTaskQueue(r.tasks)]_vars

\* C23, its order alone: the queue after a decomposition is the planner's
\* list of tasks, in its order, fallback labels filled in
C23_DecompositionKeepsOrder ==
  [][\A e \in Engines :
       (Initializes(e) /\ Has(calls'[e], "updateResearchState"))
         => /\ task_queue = <<>>
            /\ \E r \in DecompositionResponses :
                 ~r.throws /\ task_queue' = parseTaskQueue(r.tasks)]_vars

\* C24: the status follows THINKING -> EXECUTING -> {WAITING_USER |
\* THINKING}: whenever the planner is asked for a decision the status is
\* THINKING; in particular the EXECUTING of a tool dispatch has been left
\* before the next decision is requested.
C24_ThinkingWhenPlanning ==
  \A e \in Engines : pc[e] = "plan" => status = "THINKING"

\* C24, its second half alone: the planner is never asked for a decision
\* while the status is still the EXECUTING of the previous dispatch
C24_LeavesExecuting ==
  \A e \in Engines : pc[e] = "plan" => status # "EXECUTING"

\* C25: whenever an invocation has returned success = false (the exit on
\* the iteration cap or the token budget included), the session status is
\* FAILED at the return.
C25_FailureReturnMarksFailed ==
  [][\A e \in Engines :
       (pc[e] # "done" /\ pc'[e] = "done" /\ ~ret'[e].success)
         => status' = "FAILED"]_vars

\* C27: the pacing delay is taken between any two consecutive iterations
\* of the loop: when an iteration starts after another one of the same
\* invocation, the last thing that one did was the delay, also when it had
\* no decision or its dispatch failed.
C27_DelayBetweenIterations ==
  [][\A e \in Engines :
       (StartsIteration(e) /\ iteration[e] >= 1)
         => LastCall(e) = "setTimeout"]_vars

\* the terminal session states
TerminalStatus == {"COMPLETED", "FAILED"}

\* C26: COMPLETED and FAILED are terminal: once the status is one of them,
\* no step of a start or continueExecution invocation changes it, starts an
\* iteration or dispatches a tool.
C26_TerminalStatesAreTerminal ==
  [][(status \in TerminalStatus)
       => (/\ status' = status
           /\ iteration_count' = iteration_count
           /\ \A e \in Engines : ~(pc[e] = "dispatch" /\ pc'[e] = "executing"))]_vars

\* C26 for COMPLETED alone
C26_CompletedIsTerminal ==
  [][(status = "COMPLETED")
       => (status' = status /\ iteration_count' = iteration_count)]_vars

\* C28: in every iteration that has a decision the task adjustment comes
\* before the dispatch, exactly once: the planning step hands a decision to
\* the adjustment, the adjustment step either rewrites the active task as
\* the decision's adjustment says or fails and leaves the queue as it is,
\* in both cases hands the same tool to the dispatch, and the dispatch is
\* entered from the adjustment only.
C28_AdjustmentBeforeDispatch ==
  [][\A e \in Engines :
       /\ (pc[e] = "plan" /\ pc'[e] # pc[e] /\ decision'[e] # NoDecision)
            => pc'[e] = "adjust"
       /\ (pc[e] = "adjust" /\ pc'[e] # pc[e])
            => /\ pc'[e] = "dispatch"
               /\ decision'[e].tool = decision[e].tool
               /\ ~Has(calls[e], decision[e].tool)
               /\ calls'[e] = calls[e]
               /\ ret'[e] = NoReturn /\ status' = status
               /\ \/ task_queue' = task_queue /\ messages' = messages
                  \/ /\ messages' = <<"system_info">>
                     /\ task_queue' = modifyCurrentTaskAndSubproblems(
                          task_queue,
                          newTaskDescriptionOf(decision[e].taskAdjustment.taskDescription,
                                               task_queue),
                          finalSubproblemsOf(decision[e].taskAdjustment.newSubproblems,
                                             currentSubproblemCountOf(task_queue)))
       /\ (pc[e] # "dispatch" /\ pc'[e] = "dispatch") => pc[e] = "adjust"
       /\ (pc[e] = "dispatch" /\ pc'[e] # pc[e])
            => /\ pc'[e] = "executing"
               /\ calls'[e] = calls[e] \o <<decision[e].tool>>
               /\ task_queue' = task_queue]_vars

\* a tool is dispatched on the task the adjustment of the same iteration
\* has just renamed
C28_Witness ==
  \E e \in engines :
    /\ pc[e] = "executing"
    /\ calls[e] = <<"incrementIteration", "SEARCH">>
    /\ task_queue # <<>>
    /\ Head(task_queue).description = "A"
    /\ status = "EXECUTING"

\* a tool is dispatched although the adjustment of the iteration failed: the
\* task keeps the description the planner wanted to replace
C28_FailedAdjustmentWitness ==
  \E e \in engines :
    /\ pc[e] = "dispatch"
    /\ iteration[e] = 1
    /\ decision[e].tool = UnknownTool
    /\ messages # <<"system_info">>
    /\ task_queue # <<>>

C29_KeptSubproblemsWitness ==
  \E e \in engines :
    /\ pc[e] = "dispatch"
    /\ messages = <<"system_info">>
    /\ task_queue # <<>>
    /\ Head(task_queue).description = "A"
    /\ Head(task_queue).sub_problems = <<"s1", "s2", "s3", "s4">>

\* C30: the handler of a successful COMPLETE whose payload has
\* finished = true leaves the task queue empty, and the queue is still empty
\* when the end-of-iteration check of that iteration looks at it; the
\* handler of a successful COMPLETE whose payload does not have
\* finished = true leaves the task queue as it is.
C30_CompleteClearsQueueWhenFinished ==
  [][\A e \in Engines :
       /\ (/\ pc[e] = "handle" /\ pc'[e] # pc[e]
           /\ decision[e].tool = "COMPLETE"
           /\ result[e].success /\ result[e].result.defined)
            => /\ pc'[e] = "check"
               /\ IF result[e].result.value.finished = TRUE
                  THEN task_queue' = <<>>
                  ELSE task_queue' = task_queue /\ calls'[e] = calls[e]
       /\ (/\ pc[e] = "check" /\ pc'[e] # pc[e]
           /\ calls[e][2] = "COMPLETE"
           /\ Has(calls[e], "clearAllTasks"))
            => (task_queue = <<>> /\ Has(calls'[e], "evaluateGenerationProgress"))]_vars

\* a finished COMPLETE in the first iteration, on an output that is not
\* complete: the end-of-iteration check is about to run on the emptied queue
C30_Witness ==
  \E e \in engines :
    /\ pc[e] = "check"
    /\ calls[e] = <<"incrementIteration", "COMPLETE", "clearAllTasks",
                    "completeCurrentSubProblem">>
    /\ task_queue = <<>>
    /\ iteration[e] = 1
    /\ ~Satisfied(generation_output)

\* a COMPLETE that is not finished: the check runs on the untouched queue
C30_UnfinishedWitness ==
  \E e \in engines :
    /\ pc[e] = "check"
    /\ calls[e] = <<"incrementIteration", "COMPLETE">>
    /\ Len(task_queue) = 2

\* the tasks a successful REFLECT result proposes
ProposedTasks(e) ==
  IF DataOf(result[e]).defined THEN DataOf(result[e]).value ELSE <<>>

\* engine e handles a successful REFLECT with a payload in this step
ReflectStep(e) ==
  /\ pc[e] = "handle" /\ pc'[e] # pc[e]
  /\ decision[e].tool = "REFLECT"
  /\ result[e].success /\ result[e].result.defined

\* C31: a successful REFLECT that proposes new tasks appends them, in their
\* order, after all tasks already queued, whose relative order is kept; on
\* a non-empty queue the head task stays the head, less the sub-problem
\* completed in the iteration, unless that was its last one, and then the
\* task after it is the new head.
C31_ReflectAppendsAtTail ==
  [][\A e \in Engines :
       (ReflectStep(e) /\ task_queue # <<>>) =>
         LET new == ProposedTasks(e)
             head == Head(task_queue)
             gone == IF Len(head.sub_problems) > 1 THEN 0 ELSE 1
         IN /\ Len(task_queue') = Len(task_queue) - gone + Len(new)
            /\ \A i \in 1..Len(new) :
                 task_queue'[Len(task_queue) - gone + i] = new[i]
            /\ \A i \in 2..Len(task_queue) :
                 task_queue'[i - gone] = task_queue[i]
            /\ gone = 0 =>
                 /\ Head(task_queue').description = head.description
                 /\ Head(task_queue').sub_problems = Tail(head.sub_problems)]_vars

\* a REFLECT on the queue of two tasks has appended its two tasks behind
\* them, and the head task has lost the sub-problem completed
C31_Witness ==
  \E e \in engines :
    /\ pc[e] = "check"
    /\ calls[e] = <<"incrementIteration", "REFLECT", "addTasksToQueue",
                    "completeCurrentSubProblem">>
    /\ Len(task_queue) = 4
    /\ task_queue[1] = Task("T1", <<"s2", "s3", "s4">>)
    /\ task_queue[2] = Task("T2", <<"s1">>)
    /\ task_queue[3] = Task("R1", <<"r1", "r2">>)
    /\ task_queue[4] = Task("R2", <<"r3">>)

\* C32: the tasks a successful REFLECT appends are intact when the handler
\* is done: they are the last tasks of the queue, each with all its
\* sub-problems, also when the queue was empty before.
C32_AppendedTasksIntact ==
  [][\A e \in Engines :
       ReflectStep(e) =>
         LET new == ProposedTasks(e)
         IN /\ Len(task_queue') >= Len(new)
            /\ \A i \in 1..Len(new) :
                 task_queue'[Len(task_queue') - Len(new) + i] = new[i]]_vars

\* C33: between two consecutive planner decision requests at most one
\* sub-problem completion is issued. The call log of an iteration, and that
\* of a continueExecution up to its first iteration, holds at most one
\* completion; a continueExecution that follows a pause issues at most one
\* completion; and a continueExecution that issues a completion after a log
\* that holds one already (the log of the last iteration, or of another
\* continueExecution with no iteration) is not followed by a planner
\* request: its loop is left at once.
C33_AtMostOneCompletionPerDecision ==
  [][\A e \in Engines :
       /\ Count(calls'[e], "completeCurrentSubProblem") <= 1
       /\ (Resumes(e) /\ ret[e] = Returned(TRUE, "paused"))
            => task_queue' \in {task_queue, completeCurrentSubProblem(task_queue)}
       /\ (/\ Resumes(e)
           /\ Has(calls'[e], "completeCurrentSubProblem")
           /\ Has(calls[e], "completeCurrentSubProblem"))
            => ~LoopCondition(0, max_iterations, total_tokens_used, TokenBudget)]_vars

\* continueExecution has resumed a session paused by an ASK_USER and is
\* about to start its first iteration
C33_Witness ==
  \E e \in engines :
    /\ pc[e] = "top"
    /\ iteration[e] = 0
    /\ status = "WAITING_USER"
    /\ ~userInputCallback[e]
    /\ calls[e] = <<>>
    /\ task_queue # <<>>
    /\ LoopCondition(0, max_iterations, usedTokens[e], TokenBudget)

\* an iteration has completed a sub-problem once and the loop goes on to
\* the next planner request
C33_IterationWitness ==
  \E e \in engines :
    /\ pc[e] = "top"
    /\ iteration[e] = 1
    /\ Count(calls[e], "completeCurrentSubProblem") = 1
    /\ LoopCondition(iteration[e], max_iterations, usedTokens[e], TokenBudget)

\* C34: an invocation returns success = true only in two situations: with
\* the aggregated output, and the status is then COMPLETED, or with the
\* paused marker, and the status is then WAITING_USER; the status stays so
\* as long as the return value stands.
C34_SuccessOnlyCompletedOrPaused ==
  [][\A e \in Engines :
       ret'[e].success =>
         \/ ret'[e].what = "final" /\ status' = "COMPLETED"
         \/ ret'[e].what = "paused" /\ status' = "WAITING_USER"]_vars

\* an invocation has returned the paused marker
C34_Witness ==
  \E e \in engines :
    /\ pc[e] = "done"
    /\ ret[e] = Returned(TRUE, "paused")
    /\ status = "WAITING_USER"
    /\ calls[e][2] = "ASK_USER"

\* an invocation has returned the aggregated output
C34_CompletedWitness ==
  \E e \in engines :
    /\ pc[e] = "done"
    /\ ret[e] = Returned(TRUE, "final")
    /\ status = "COMPLETED"
    /\ task_queue = <<>>

\* C35: the tool is dispatched with the context built at the start of the
\* iteration: the context is the queue the iteration started on, the
\* planning, adjustment and dispatch steps leave it as it is while the
\* adjustment rewrites the persisted active task, and it is still the
\* same when the tool returns.
C35_ToolSeesPreAdjustmentContext ==
  [][\A e \in Engines :
       /\ StartsIteration(e) => context'[e] = task_queue'
       /\ (pc[e] = "plan" /\ pc'[e] = "adjust")
            => (context'[e] = context[e] /\ task_queue' = task_queue)
       /\ (pc[e] = "adjust" /\ pc'[e] = "dispatch")
            => (context'[e] = context[e] /\ context[e] = task_queue)
       /\ (pc[e] = "dispatch" /\ pc'[e] = "executing")
            => (context'[e] = context[e] /\ task_queue' = task_queue)
       /\ (pc[e] = "executing" /\ pc'[e] # pc[e])
            => (context'[e] = context[e] /\ task_queue' = task_queue)]_vars

\* a tool is running on a context whose active task has the description
\* and the four sub-problems of the iteration's start, while the persisted
\* active task carries the adjusted ones
C35_Witness ==
  \E e \in engines :
    /\ pc[e] = "executing"
    /\ calls[e] = <<"incrementIteration", "SEARCH">>
    /\ context[e] # <<>> /\ task_queue # <<>>
    /\ Head(context[e]) = Task("T1", <<"s1", "s2", "s3", "s4">>)
    /\ Head(task_queue) = Task("T1", <<"a", "b", "c">>)

\* the successful result of engine e lacks the payload its tool is expected
\* to return: no result object, no payload field, or (SEARCH) no entries
LacksPayload(e) ==
  \/ ~DataOf(result[e]).defined
  \/ decision[e].tool = "SEARCH" /\ DataOf(result[e]).value = {}

\* C36: a successful SEARCH or content-producing dispatch whose result
\* lacks the expected payload writes nothing to the knowledge base or the
\* generation output, and the active sub-problem is completed all the same:
\* the completion is the one call of the handler, and the loop goes on to
\* the end-of-iteration check.
C36_MissingPayloadWritesNothing ==
  [][\A e \in Engines :
       (/\ pc[e] = "handle" /\ pc'[e] # pc[e]
        /\ decision[e].tool \in {"SEARCH"} \cup ContentTools
        /\ result[e].success
        /\ LacksPayload(e))
         => /\ knowledge_base' = knowledge_base
            /\ generation_output' = generation_output
            /\ task_queue' = completeCurrentSubProblem(task_queue)
            /\ calls'[e] = calls[e] \o <<"completeCurrentSubProblem">>
            /\ pc'[e] = "check"
            /\ status' = status]_vars

\* a successful CHARACTER without payload has completed the first
\* sub-problem of the active task and left the output as it was
C36_Witness ==
  \E e \in engines :
    /\ pc[e] = "check"
    /\ calls[e] = <<"incrementIteration", "CHARACTER", "completeCurrentSubProblem">>
    /\ iteration_count = 1
    /\ generation_output = NearOutput
    /\ task_queue = <<Task("T1", <<"s2", "s3", "s4">>), Task("T2", <<"s1">>)>>

\* a successful SEARCH without result has completed a sub-problem and left
\* the knowledge base empty
C36_SearchWitness ==
  \E e \in engines :
    /\ pc[e] = "check"
    /\ calls[e] = <<"incrementIteration", "SEARCH", "completeCurrentSubProblem">>
    /\ iteration_count = 1
    /\ knowledge_base = {}
    /\ task_queue = <<Task("T1", <<"s2", "s3", "s4">>), Task("T2", <<"s1">>)>>

\* C37: whenever the planner is asked and the last logged message is not a
\* quality_evaluation or a tool_failure, the completion status it is shown
\* says "Generation complete - Ready for final evaluation" exactly when the
\* Completion Evaluator is satisfied with the generation output.
C37_SummaryAgreesWithEvaluator ==
  \A e \in Engines :
    (/\ pc[e] = "plan"
     /\ buildCompletionStatusSummary(generation_output, messages) # "lastMsg.content")
      => (buildCompletionStatusSummary(generation_output, messages)
            = "Generation complete - Ready for final evaluation"
          <=> Satisfied(generation_output))

\* the value of a CDATA text as the design document states it: strict
\* parsing, else the parse of the text repaired by a closing bracket and
\* then a closing quote, else the raw text
StatedCdata(t) ==
  IF JSONparse(t).defined THEN JSONparse(t).value
  ELSE IF JSONparse(AutoFix(t)).defined THEN JSONparse(AutoFix(t)).value
  ELSE JSONValue("raw", <<t>>)

\* the value of a CDATA text with the further attempt of the code: when the
\* repaired text is invalid, the text with only its brackets closed
RetriedCdata(t) ==
  IF StatedCdata(t).kind = "raw" /\ JSONparse(CloseBrackets(t)).defined
  THEN JSONparse(CloseBrackets(t)).value
  ELSE StatedCdata(t)

\* engine e leaves the planning step with a decision in this step
Decides(e) == pc[e] = "plan" /\ pc'[e] = "adjust"

\* C38 (as stated): a decision's parameter mapping has an entry for every
\* parameter tag of the response, none dropped, and the entry of a CDATA
\* tag is its strictly parsed value, else the value of the text repaired
\* by a closing bracket and then a closing quote, else the raw text.
C38_EveryTagParsedAsStated ==
  [][\A e \in Engines :
       Decides(e) =>
         \A r \in PlannerResponses :
           selectNextDecision(r) = decision'[e] =>
             LET ps == r.parameters
                 m == decision'[e].parameters
             IN /\ Cardinality(DOMAIN m) = Len(ps)
                /\ \A i \in 1..Len(ps) :
                     /\ ps[i].key \in DOMAIN m
                     /\ ps[i].cdata => m[ps[i].key] = StatedCdata(ps[i].text)]_vars

\* C38 (as amended): a decision's parameter mapping has an entry under the
\* name of every parameter tag of the response, a later tag of a name
\* replacing an earlier one; the entry of a CDATA tag is its strictly parsed
\* value, else the value of the text repaired by a closing bracket and then
\* a closing quote, else the value of the text with only the bracket
\* appended, else the raw text; the entry of a plain tag is a boolean, a
\* number or its text.
C38_ParametersRepairedNotDropped ==
  [][\A e \in Engines :
       Decides(e) =>
         \A r \in PlannerResponses :
           selectNextDecision(r) = decision'[e] =>
             LET ps == r.parameters
                 m == decision'[e].parameters
             IN /\ DOMAIN m = {ps[i].key : i \in 1..Len(ps)}
                /\ \A i \in 1..Len(ps) :
                     (\A j \in (i + 1)..Len(ps) : ps[j].key # ps[i].key) =>
                       IF ps[i].cdata
                       THEN m[ps[i].key] = RetriedCdata(ps[i].text)
                       ELSE /\ m[ps[i].key].kind \in {"boolean", "number", "string"}
                            /\ m[ps[i].key].kind = "string"
                                 => m[ps[i].key].items = <<ps[i].text>>]_vars

\* a decision carries the array of a truncated CDATA text that only the
\* attempt with the bracket alone could parse
C38_Witness ==
  \E e \in engines :
    /\ pc[e] = "adjust"
    /\ decision[e].tool = "SEARCH"
    /\ decision[e].parameters = [query |-> JSONValue("array", <<(<<"a", EscapedQuote>>)>>)]

\* a decision carries one entry for two tags of the same name, the value of
\* the later one
C38_ReplacedWitness ==
  \E e \in engines :
    /\ pc[e] = "adjust"
    /\ decision[e].parameters = [query |-> JSONValue("string", <<(<<"b">>)>>)]

\* a decision carries the raw text of a CDATA value no repair could parse
C38_RawWitness ==
  \E e \in engines :
    /\ pc[e] = "adjust"
    /\ decision[e].parameters
         = [query |-> JSONValue("raw", <<(<<"[", Quote, "a", Quote, ",", Quote, "b">>)>>)]

\* C39: the registry resolves a tool name against the union of its static
\* and dynamic stores: a name registered with registerDynamicTool is found by
\* getTool, a name that was unregistered (or never registered) and is no
\* static tool is not found, and the tool executeToolDecision dispatches for
\* a decision is the tool getTool finds for the decision's name
C39_DispatchResolvesAgainstBothStores ==
  /\ \A toolName \in dynamicTools :
       getTool(dynamicTools, toolName) = Some(toolName)
  /\ \A toolName \in DynamicToolNames \ dynamicTools :
       getTool(dynamicTools, toolName) = Absent
  /\ \A e \in engines :
       pc[e] = "executing" =>
         toolsGet(decision[e].tool) = getTool(dynamicTools, decision[e].tool)

\* C39: with the dispatch left aside, lookup follows registration
C39_LookupFollowsRegistration ==
  [][\A toolName \in DynamicToolNames :
       /\ RegisterDynamicTool(toolName) =>
            getTool(dynamicTools', toolName) = Some(toolName)
       /\ UnregisterDynamicTool(toolName) =>
            getTool(dynamicTools', toolName) = Absent]_vars

\* C39: a decision that names a registered dynamic tool is being dispatched
C39_Witness ==
  \E e \in engines :
    /\ pc[e] = "executing"
    /\ decision[e].tool \in dynamicTools

\* C40: executeToolDecision never raises: the dispatch always hands a result
\* to the loop and the invocation neither returns nor fails there; a decision
\* naming a name with no registered tool yields a failure result with the
\* error text for that name, an exception of the tool's execute becomes a
\* failure result carrying the exception's message; a failure result takes
\* the tool-failure path (a tool_failure message, no completion) and the
\* loop goes on to its next iteration
C40_DispatchNeverRaises ==
  [][\A e \in engines :
       /\ (pc[e] = "executing" /\ pc'[e] # pc[e]) =>
            /\ pc'[e] = "handle"
            /\ ret'[e] = NoReturn /\ status' = status
            /\ (~toolsGet(decision[e].tool).defined) =>
                 result'[e] = FailureResult(NoToolFound(decision[e].tool))
       /\ (pc[e] = "executing" /\ ExecuteCaught(e)) =>
            /\ ~result'[e].success
            /\ result'[e].error \in ThrownMessages
       /\ (pc[e] = "handle" /\ ~result[e].success /\ pc'[e] # pc[e]) =>
            /\ pc'[e] = "top"
            /\ ret'[e] = NoReturn /\ status' = status
            /\ task_queue' = task_queue
            /\ messages' = <<"tool_failure">>]_vars

\* C40: the loop is back at its top after the failure of a decision that
\* named no registered tool
C40_Witness ==
  \E e \in engines :
    /\ pc[e] = "top"
    /\ Len(calls[e]) >= 2 /\ calls[e][2] = UnknownTool
    /\ messages = <<"tool_failure">>
    /\ ret[e] = NoReturn

\* C40: a failure result that carries the message of a tool's exception is
\* handed to the loop
C40_CaughtWitness ==
  \E e \in engines :
    /\ pc[e] = "handle"
    /\ decision[e].tool \in ToolType
    /\ result[e] = FailureResult("tool threw")

====
